---- MODULE Spec2Model ----
(***************************************************************************)
(* Model of delivery_order: the HTSC delivery-order normaliser.            *)
(*   src/src/htsc.rs  Context (position ledger), gen_order (column mapper  *)
(*                    and trade classifier), the file producer             *)
(*   src/src/main.rs  main (task spawn), write_htsc_to_tzzb_excel (the     *)
(*                    consumer), DeliveryOrder, Trade                      *)
(*                                                                         *)
(* Text is modelled at character level: a Rust String is a sequence of     *)
(* one-character strings, so trim, split, parse::<f64> and to_string are   *)
(* computed, not assumed.  A Chinese character is written as its pinyin,   *)
(* with a tone digit where the pinyin alone would be the text of another   *)
(* character, a Latin letter included: "mai4" is the one character 卖,     *)
(* "mai3" the one character 买, "e2" the one character 额 and "e" the      *)
(* Latin letter, "qi" the one character 期 and "qi2" the one character 其. *)
(***************************************************************************)
EXTENDS Integers, Sequences, FiniteSets, TLC

(***************************************************************************)
(* Bounds of the model (not program constants).                            *)
(***************************************************************************)
\* most input files of one run (positional arguments)
MaxFiles == 2
\* most data lines read in one run of the pipeline, all files together
MaxLines == 3
\* length of the long single-file run that fills the channel
BulkLen == 130

(***************************************************************************)
(* Program constants.                                                      *)
(***************************************************************************)
\* main.rs:26  bounded(128)
Capacity == 128

(***************************************************************************)
(* Strings.                                                                *)
(***************************************************************************)
\* the characters with the Unicode property White_Space, which str::trim
\* strips (char::is_whitespace).  A character that cannot be written in a
\* string of TLA+ is named by its code point: "U+3000" is the one character
\* U+3000, the ideographic space.
WhiteSpace ==
    {"\t", "\n", "U+000B", "\f", "\r", " ", "U+0085", "U+00A0", "U+1680", "U+2000",
     "U+2001", "U+2002", "U+2003", "U+2004", "U+2005", "U+2006", "U+2007", "U+2008",
     "U+2009", "U+200A", "U+2028", "U+2029", "U+202F", "U+205F", "U+3000"}

Digits == <<"0", "1", "2", "3", "4", "5", "6", "7", "8", "9">>

IsDigit(c) == \E d \in 1..10 : Digits[d] = c

DigitVal(c) == (CHOOSE d \in 1..10 : Digits[d] = c) - 1

RECURSIVE TrimStart(_)
TrimStart(s) ==
    IF s = <<>> THEN s
    ELSE IF Head(s) \in WhiteSpace THEN TrimStart(Tail(s)) ELSE s

RECURSIVE TrimEnd(_)
TrimEnd(s) ==
    IF s = <<>> THEN s
    ELSE IF s[Len(s)] \in WhiteSpace THEN TrimEnd(SubSeq(s, 1, Len(s) - 1)) ELSE s

\* str::trim
Trim(s) == TrimEnd(TrimStart(s))

\* str::split(sep): the pieces between the separators; "" gives one empty piece
RECURSIVE Split(_, _)
Split(s, sep) ==
    IF \A i \in 1..Len(s) : s[i] # sep THEN <<s>>
    ELSE LET i == CHOOSE k \in 1..Len(s) : s[k] = sep /\ \A j \in 1..(k - 1) : s[j] # sep
         IN  <<SubSeq(s, 1, i - 1)>> \o Split(SubSeq(s, i + 1, Len(s)), sep)

\* str::ends_with
EndsWith(s, suffix) ==
    /\ Len(s) >= Len(suffix)
    /\ SubSeq(s, Len(s) - Len(suffix) + 1, Len(s)) = suffix

RECURSIVE DigitsToNat(_)
DigitsToNat(s) ==
    IF s = <<>> THEN 0
    ELSE 10 * DigitsToNat(SubSeq(s, 1, Len(s) - 1)) + DigitVal(s[Len(s)])

RECURSIVE NatToString(_)
NatToString(n) ==
    IF n < 10 THEN <<Digits[n + 1]>>
    ELSE NatToString(n \div 10) \o <<Digits[(n % 10) + 1]>>

(***************************************************************************)
(* Integers.  An i64 and the whole part of an f64 are wider than the       *)
(* integers TLC computes with (32 bits), so a magnitude is kept as three   *)
(* limbs in base 10^9, most significant first, and an integer as a sign    *)
(* and a magnitude.  Three limbs hold every magnitude below 10^27.         *)
(***************************************************************************)
LimbBase == 10^9

\* the limbs of h * 10^18 + m * 10^9 + l, carries and borrows settled
Limbs(h, m, l) ==
    <<h + ((m + (l \div LimbBase)) \div LimbBase),
      (m + (l \div LimbBase)) % LimbBase,
      l % LimbBase>>

LimbsAdd(a, b) == Limbs(a[1] + b[1], a[2] + b[2], a[3] + b[3])

\* a - b, for a >= b
LimbsSub(a, b) == Limbs(a[1] - b[1], a[2] - b[2], a[3] - b[3])

LimbsLess(a, b) ==
    \/ a[1] < b[1]
    \/ a[1] = b[1] /\ a[2] < b[2]
    \/ a[1] = b[1] /\ a[2] = b[2] /\ a[3] < b[3]

\* a \div 2
LimbsHalf(a) ==
    <<a[1] \div 2,
      ((a[1] % 2) * LimbBase + a[2]) \div 2,
      ((a[2] % 2) * LimbBase + a[3]) \div 2>>

\* the number of binary digits of a
RECURSIVE BitLen(_)
BitLen(a) == IF a = <<0, 0, 0>> THEN 0 ELSE 1 + BitLen(LimbsHalf(a))

\* a \div 2^k and a * 2^k
RECURSIVE ShiftRight(_, _)
ShiftRight(a, k) == IF k = 0 THEN a ELSE ShiftRight(LimbsHalf(a), k - 1)

RECURSIVE ShiftLeft(_, _)
ShiftLeft(a, k) == IF k = 0 THEN a ELSE ShiftLeft(LimbsAdd(a, a), k - 1)

\* decimal digits without the leading zeros
RECURSIVE StripZeros(_)
StripZeros(s) == IF s # <<>> /\ Head(s) = "0" THEN StripZeros(Tail(s)) ELSE s

\* the magnitude written by at most 27 decimal digits
DigitsToLimbs(s) ==
    <<DigitsToNat(SubSeq(s, 1, Len(s) - 18)),
      DigitsToNat(SubSeq(s, IF Len(s) > 18 THEN Len(s) - 17 ELSE 1, Len(s) - 9)),
      DigitsToNat(SubSeq(s, IF Len(s) > 9 THEN Len(s) - 8 ELSE 1, Len(s)))>>

\* the nine decimal digits of a limb that is not the first
Pad9(n) ==
    [i \in 1..(9 - Len(NatToString(n))) |-> "0"] \o NatToString(n)

LimbsToString(a) ==
    IF a[1] > 0 THEN NatToString(a[1]) \o Pad9(a[2]) \o Pad9(a[3])
    ELSE IF a[2] > 0 THEN NatToString(a[2]) \o Pad9(a[3])
    ELSE NatToString(a[3])

\* an integer: zero has no sign
Signed(neg, mag) == [neg |-> neg /\ mag # <<0, 0, 0>>, mag |-> mag]

\* the i64 of a small integer of the model
I64(n) == Signed(n < 0, Limbs(0, 0, IF n < 0 THEN 0 - n ELSE n))

IntNeg(x) == Signed(~x.neg, x.mag)

IntAdd(x, y) ==
    IF x.neg = y.neg THEN Signed(x.neg, LimbsAdd(x.mag, y.mag))
    ELSE IF LimbsLess(x.mag, y.mag) THEN Signed(y.neg, LimbsSub(y.mag, x.mag))
    ELSE Signed(x.neg, LimbsSub(x.mag, y.mag))

IntLess(x, y) ==
    IF x.neg # y.neg THEN x.neg
    ELSE IF x.neg THEN LimbsLess(y.mag, x.mag) ELSE LimbsLess(x.mag, y.mag)

\* i64::MAX = 2^63 - 1, i64::MIN = -2^63, and 2^64
I64Max == Signed(FALSE, <<9, 223372036, 854775807>>)
I64Min == Signed(TRUE, <<9, 223372036, 854775808>>)
TwoTo64 == Signed(FALSE, <<18, 446744073, 709551616>>)

\* the integer is an i64
FitsI64(x) == ~IntLess(x, I64Min) /\ ~IntLess(I64Max, x)

\* the i64 a result just outside the range wraps to (two's complement)
Wrap(x) ==
    IF FitsI64(x) THEN x
    ELSE IF x.neg THEN IntAdd(x, TwoTo64) ELSE IntAdd(x, IntNeg(TwoTo64))

\* The outcome of i64 arithmetic whose exact result is x.  An overflow
\* panics in a build with overflow checks (the debug profile) and wraps in a
\* build without (the release profile); checks says which build runs.
Arith(checks, x) ==
    [panic |-> checks /\ ~FitsI64(x), overflow |-> ~FitsI64(x), val |-> Wrap(x)]

\* i64::abs: i64::MIN has no absolute value in i64
Abs(checks, n) == Arith(checks, IF n.neg THEN IntNeg(n) ELSE n)

\* unary minus on an i64
Neg(checks, n) == Arith(checks, IntNeg(n))

\* i64::to_string / format!("{}", i64)
I64ToString(n) == IF n.neg THEN <<"-">> \o LimbsToString(n.mag) ELSE LimbsToString(n.mag)

(***************************************************************************)
(* f64: str::parse::<f64> and the cast `as i64`.  Of an f64 the model      *)
(* keeps what the cast reads: whether it is NaN, its sign, and the whole   *)
(* part of its magnitude, or huge for a magnitude of 10^19 or more         *)
(* (infinity included), which is beyond every i64.                         *)
(***************************************************************************)
F64(nan, neg, huge, whole) ==
    [ok |-> TRUE, nan |-> nan, neg |-> neg, huge |-> huge, whole |-> whole]

\* Err(ParseFloatError)
F64Err == [ok |-> FALSE, nan |-> FALSE, neg |-> FALSE, huge |-> FALSE, whole |-> <<0, 0, 0>>]

\* the letters parse::<f64> reads, whatever their case
LowerCase(c) ==
    IF c = "A" THEN "a" ELSE IF c = "E" THEN "e" ELSE IF c = "F" THEN "f"
    ELSE IF c = "I" THEN "i" ELSE IF c = "N" THEN "n" ELSE IF c = "T" THEN "t"
    ELSE IF c = "Y" THEN "y" ELSE c

Lower(s) == [i \in 1..Len(s) |-> LowerCase(s[i])]

\* the number written by the digit values d[lo..hi], a digit past either
\* end being 0; at most nine digits
RECURSIVE WindowVal(_, _, _)
WindowVal(d, lo, hi) ==
    IF hi < lo THEN 0
    ELSE 10 * WindowVal(d, lo, hi - 1) + (IF hi >= 1 /\ hi <= Len(d) THEN d[hi] ELSE 0)

\* the Len(d) + t decimal digits of 0.d / 2^t, for t <= 9: long division, in
\* which the remainder before digit i is that of the t digits before it,
\* 10^t being a multiple of 2^t
DivPow2(d, t) ==
    <<>> \o [i \in 1..(Len(d) + t) |->
                (10 * (WindowVal(d, i - t, i - 1) % (2^t)) + WindowVal(d, i, i)) \div (2^t)]

\* the j decimal digits of 2^-j = 5^j / 10^j
RECURSIVE Pow2Neg(_)
Pow2Neg(j) ==
    IF j <= 9 THEN <<>> \o [i \in 1..j |-> ((5^j) \div (10^(j - i))) % 10]
    ELSE DivPow2(Pow2Neg(j - 9), 9)

\* the digits of 1 - 0.p, for p with a last digit that is not 0
Complement(p) ==
    <<>> \o [i \in 1..Len(p) |-> IF i = Len(p) THEN 10 - p[i] ELSE 9 - p[i]]

\* the j decimal digits of 1 - 2^-j
RoundingPoint(j) == Complement(Pow2Neg(j))

\* the values of a text of digits
DigitVals(s) == <<>> \o [i \in 1..Len(s) |-> DigitVal(s[i])]

DigitAt(d, i) == IF i <= Len(d) THEN d[i] ELSE 0

\* the first place where the digits of 0.f and 0.c differ, 0 when none does
FirstDifference(f, c) ==
    IF \A i \in 1..(Len(f) + Len(c)) : DigitAt(f, i) = DigitAt(c, i) THEN 0
    ELSE CHOOSE k \in 1..(Len(f) + Len(c)) :
             /\ DigitAt(f, k) # DigitAt(c, k)
             /\ \A i \in 1..(k - 1) : DigitAt(f, i) = DigitAt(c, i)

\* 0.f against 0.c: -1, 0 or 1
CompareFrac(f, c) ==
    IF FirstDifference(f, c) = 0 THEN 0
    ELSE IF DigitAt(f, FirstDifference(f, c)) < DigitAt(c, FirstDifference(f, c)) THEN 0 - 1
    ELSE 1

\* round to nearest, ties to even, for a whole part w of b <= 53 binary
\* digits and fraction digits frac: the f64 nearest to w.frac is w + 1 or
\* above w by less than 1.  The f64 below w + 1 are 2^(b-53) apart, so the
\* value rounds to w + 1 from 1 - 2^(b-54) on; on the tie w + 1 is the even
\* one, but for b = 53 and w even.  (A fraction that reaches 1 - 2^-j begins
\* with 3j/10 nines, which is tested first.)
RoundsUp(w, frac, b) ==
    /\ \A i \in 1..((3 * (54 - b)) \div 10) : i <= Len(frac) /\ frac[i] = "9"
    /\ \/ CompareFrac(DigitVals(frac), RoundingPoint(54 - b)) > 0
       \/ /\ CompareFrac(DigitVals(frac), RoundingPoint(54 - b)) = 0
          /\ (b < 53 \/ w[3] % 2 = 1)

\* round to nearest, ties to even, for a whole part of 53 + k binary digits:
\* q its first 53 digits, r the k digits left, sticky a fraction that is not 0
RoundWhole(q, r, k, sticky) ==
    IF \/ LimbsLess(ShiftLeft(<<0, 0, 1>>, k - 1), r)
       \/ r = ShiftLeft(<<0, 0, 1>>, k - 1) /\ (sticky \/ q[3] % 2 = 1)
    THEN ShiftLeft(LimbsAdd(q, <<0, 0, 1>>), k)
    ELSE ShiftLeft(q, k)

\* the whole part of the f64 nearest to w.frac, b the binary digits of w
RoundF64(w, frac, b) ==
    IF b <= 53 THEN (IF RoundsUp(w, frac, b) THEN LimbsAdd(w, <<0, 0, 1>>) ELSE w)
    ELSE RoundWhole(ShiftRight(w, b - 53),
                    LimbsSub(w, ShiftLeft(ShiftRight(w, b - 53), b - 53)),
                    b - 53, \E i \in 1..Len(frac) : frac[i] # "0")

\* the f64 of a magnitude given by its whole digits and fraction digits
F64OfDigits(neg, whole, frac) ==
    F64(FALSE, neg, FALSE,
        RoundF64(DigitsToLimbs(StripZeros(whole)), frac,
                 BitLen(DigitsToLimbs(StripZeros(whole)))))

\* the f64 of 0.d * 10^p, d digits with a first digit that is not 0: with
\* more than 19 whole digits it is huge, below 0.1 its whole part is 0
F64OfScaled(neg, d, p) ==
    IF p > 19 THEN F64(FALSE, neg, TRUE, <<0, 0, 0>>)
    ELSE IF p < 0 THEN F64(FALSE, neg, FALSE, <<0, 0, 0>>)
    ELSE IF p > Len(d) THEN F64OfDigits(neg, d \o [i \in 1..(p - Len(d)) |-> "0"], <<>>)
    ELSE F64OfDigits(neg, SubSeq(d, 1, p), SubSeq(d, p + 1, Len(d)))

\* the f64 of the digits int.frac times 10^exp
F64OfDecimal(neg, int, frac, exp) ==
    IF StripZeros(int \o frac) = <<>> THEN F64(FALSE, neg, FALSE, <<0, 0, 0>>)
    ELSE F64OfScaled(neg, StripZeros(int \o frac),
                     Len(int) + exp - (Len(int \o frac) - Len(StripZeros(int \o frac))))

AllDigits(s) == \A i \in 1..Len(s) : IsDigit(s[i])

\* the exponent written by these digits; from 10^8 on its size does not
\* matter to a text the model can hold
ExpValue(s) == IF Len(StripZeros(s)) > 8 THEN 10^8 ELSE DigitsToNat(StripZeros(s))

\* Number ::= ( Digit+ | Digit+ '.' Digit* | Digit* '.' Digit+ ), times 10^exp
ParseDecimal(neg, parts, exp) ==
    IF /\ Len(parts) <= 2
       /\ \A p \in 1..Len(parts) : AllDigits(parts[p])
       /\ \E p \in 1..Len(parts) : Len(parts[p]) > 0
    THEN F64OfDecimal(neg, parts[1], IF Len(parts) = 2 THEN parts[2] ELSE <<>>, exp)
    ELSE F64Err

\* Exp ::= 'e' Sign? Digit+, e the text after the 'e'
ParseExp(neg, mantissa, e) ==
    IF e # <<>> /\ Head(e) \in {"+", "-"}
    THEN IF Tail(e) # <<>> /\ AllDigits(Tail(e))
         THEN ParseDecimal(neg, Split(mantissa, "."),
                           IF Head(e) = "-" THEN 0 - ExpValue(Tail(e)) ELSE ExpValue(Tail(e)))
         ELSE F64Err
    ELSE IF e # <<>> /\ AllDigits(e)
         THEN ParseDecimal(neg, Split(mantissa, "."), ExpValue(e))
         ELSE F64Err

\* the place of the first 'e' or 'E' of the text, 0 when it has none
ExpAt(s) ==
    IF \A i \in 1..Len(s) : LowerCase(s[i]) # "e" THEN 0
    ELSE CHOOSE k \in 1..Len(s) :
             LowerCase(s[k]) = "e" /\ \A j \in 1..(k - 1) : LowerCase(s[j]) # "e"

\* the text after the sign: 'inf' | 'infinity' | 'nan' | Number Exp?
ParseUnsigned(neg, s) ==
    IF Lower(s) = <<"n", "a", "n">> THEN F64(TRUE, neg, FALSE, <<0, 0, 0>>)
    ELSE IF Lower(s) \in {<<"i", "n", "f">>, <<"i", "n", "f", "i", "n", "i", "t", "y">>}
        THEN F64(FALSE, neg, TRUE, <<0, 0, 0>>)
    ELSE IF ExpAt(s) = 0 THEN ParseDecimal(neg, Split(s, "."), 0)
    ELSE ParseExp(neg, SubSeq(s, 1, ExpAt(s) - 1), SubSeq(s, ExpAt(s) + 1, Len(s)))

\* str::parse::<f64>: Sign? ( 'inf' | 'infinity' | 'nan' | Number ), the
\* letters in any case; anything else is Err.  The value is the f64 nearest
\* to the decimal text.
ParseF64(s) ==
    IF s # <<>> /\ Head(s) \in {"+", "-"} THEN ParseUnsigned(Head(s) = "-", Tail(s))
    ELSE ParseUnsigned(FALSE, s)

\* `f as i64`: truncation toward zero, NaN gives 0, a value beyond the range
\* gives i64::MAX or i64::MIN
AsI64(f) ==
    IF f.nan THEN Signed(FALSE, <<0, 0, 0>>)
    ELSE IF f.huge \/ ~FitsI64(Signed(f.neg, f.whole))
        THEN (IF f.neg THEN I64Min ELSE I64Max)
    ELSE Signed(f.neg, f.whole)

(***************************************************************************)
(* Column names gen_order dispatches on (htsc.rs:69-120).                  *)
(***************************************************************************)
\* "发生日期"
T_FaShengRiQi == <<"fa", "sheng", "ri", "qi">>
\* "日期"
T_RiQi == <<"ri", "qi">>
\* "证券代码"
T_ZhengQuanDaiMa == <<"zheng", "quan", "dai", "ma">>
\* "证券名称"
T_ZhengQuanMingCheng == <<"zheng", "quan", "ming", "cheng1">>
\* "股票名称"
T_GuPiaoMingCheng == <<"gu", "piao", "ming", "cheng1">>
\* "成交数量"
T_ChengJiaoShuLiang == <<"cheng2", "jiao", "shu", "liang">>
\* "发生数量"
T_FaShengShuLiang == <<"fa", "sheng", "shu", "liang">>
\* "成交价格"
T_ChengJiaoJiaGe == <<"cheng2", "jiao", "jia", "ge">>
\* "成交均价"
T_ChengJiaoJunJia == <<"cheng2", "jiao", "jun", "jia">>
\* "发生金额"
T_FaShengJinE == <<"fa", "sheng", "jin", "e2">>
\* "收付金额"
T_ShouFuJinE == <<"shou", "fu", "jin", "e2">>
\* "业务名称"
T_YeWuMingCheng == <<"ye", "wu", "ming", "cheng1">>
\* "业务标志"
T_YeWuBiaoZhi == <<"ye", "wu", "biao", "zhi">>
\* "证券数量"
T_ZhengQuanShuLiang == <<"zheng", "quan", "shu", "liang">>

(***************************************************************************)
(* Business-type tokens and labels of the classifier (htsc.rs:93-114).     *)
(***************************************************************************)
\* "证券卖出"
B_ZhengQuanMaiChu == <<"zheng", "quan", "mai4", "chu">>
\* "证券买入"
B_ZhengQuanMaiRu == <<"zheng", "quan", "mai3", "ru">>
\* "开放基金认购结果"
B_KaiFangJiJinRenGouJieGuo == <<"kai", "fang", "ji", "jin", "ren", "gou", "jie", "guo">>
\* "银证转存"
B_YinZhengZhuanCun == <<"yin", "zheng", "zhuan", "cun">>
\* "银行转存"
B_YinHangZhuanCun == <<"yin", "hang", "zhuan", "cun">>
\* "利息归本"
B_LiXiGuiBen == <<"li", "xi", "gui", "ben">>
\* "银证转取"
B_YinZhengZhuanQu == <<"yin", "zheng", "zhuan", "qu">>
\* "银行转取"
B_YinHangZhuanQu == <<"yin", "hang", "zhuan", "qu">>
\* "卖出"
K_MaiChu == <<"mai4", "chu">>
\* "买入"
K_MaiRu == <<"mai3", "ru">>
\* "银证转入"
K_YinZhengZhuanRu == <<"yin", "zheng", "zhuan", "ru">>
\* "银证转出"
K_YinZhengZhuanChu == <<"yin", "zheng", "zhuan", "chu">>

(***************************************************************************)
(* Trade and DeliveryOrder (main.rs:164-312).                              *)
(***************************************************************************)
\* enum Trade { Buy, Sell, In, Out, Ignore }
Trade == {"Buy", "Sell", "In", "Out", "Ignore"}

\* impl Default for Trade
TradeDefault == "Ignore"

\* #[derive(Default)] DeliveryOrder: every string empty, trade the default
DeliveryOrderDefault ==
    [code |-> <<>>, name |-> <<>>, date |-> <<>>, kind |-> <<>>, count |-> <<>>,
     prize |-> <<>>, amount |-> <<>>, owned |-> <<>>, trade |-> TradeDefault]

with_code(o, v) == [o EXCEPT !.code = v]
with_name(o, v) == [o EXCEPT !.name = v]
with_date(o, v) == [o EXCEPT !.date = v]
with_kind(o, v) == [o EXCEPT !.kind = v]
with_count(o, v) == [o EXCEPT !.count = v]
with_prize(o, v) == [o EXCEPT !.prize = v]
with_amount(o, v) == [o EXCEPT !.amount = v]
with_owned(o, v) == [o EXCEPT !.owned = v]
with_trade(o, t) == [o EXCEPT !.trade = t]

\* a validity test that lets every order through
is_valid_always(o) == o.trade \in Trade

\* DeliveryOrder::is_valid
is_valid(o) == o.trade # "Ignore"

(***************************************************************************)
(* Context: the position ledger (htsc.rs:12-40).  count is the HashMap,    *)
(* a function from the security codes seen so far to their totals.         *)
(***************************************************************************)
\* Context::new
ContextNew == [count |-> <<>>]

\* Context::has
has(c, key) == key \in DOMAIN c.count

\* Option<i64>
None == [some |-> FALSE, val |-> I64(0)]
Some(v) == [some |-> TRUE, val |-> v]

\* Context::get_count: Option<&i64>
get_count(c, key) == IF key \in DOMAIN c.count THEN Some(c.count[key]) ELSE None

\* entry(key).or_insert(0): the total of the key, 0 for a key not seen yet
Entry(c, key) == IF key \in DOMAIN c.count THEN c.count[key] ELSE I64(0)

\* what add_count leaves, a the outcome of the addition: a panic leaves the
\* Context as it was (a key that is new cannot overflow)
Added(c, key, a) ==
    [panic |-> a.panic, overflow |-> a.overflow,
     ctx |-> IF a.panic THEN c
             ELSE [c EXCEPT !.count = [k \in DOMAIN @ \cup {key} |->
                                          IF k = key THEN a.val ELSE @[k]]]]

\* a ledger with one accumulator shared by all the codes
add_count_shared(checks, c, key, n) ==
    [panic |-> FALSE, overflow |-> FALSE,
     ctx |-> [c EXCEPT !.count = [k \in DOMAIN @ \cup {key} |->
                                     Wrap(IntAdd(IF k \in DOMAIN @ THEN @[k] ELSE I64(0), n))]]]

\* a ledger that skips the lines without a code
add_count_named(checks, c, key, n) ==
    IF key = <<>> THEN [panic |-> FALSE, overflow |-> FALSE, ctx |-> c]
    ELSE Added(c, key, Arith(checks, IntAdd(Entry(c, key), n)))

\* Context::add_count: *entry(key).or_insert(0) += count
add_count(checks, c, key, n) == Added(c, key, Arith(checks, IntAdd(Entry(c, key), n)))

(***************************************************************************)
(* Context::gen_order (htsc.rs:57-143).  checks says whether the build     *)
(* panics on an arithmetic overflow; build is what a call shows of it:     *)
(* "any" when nothing overflowed, "debug" when an overflow panicked,       *)
(* "release" when one wrapped.                                             *)
(***************************************************************************)
Build(checks, overflow) == IF ~overflow THEN "any" ELSE IF checks THEN "debug" ELSE "release"

\* the locals of gen_order before the loop (htsc.rs:62-64); panic is set
\* when an expect/unwrap or an overflow check of the loop fails, overflow
\* when an operation of the loop overflowed
GenOrderLocals ==
    [delivery_order |-> DeliveryOrderDefault, count |-> I64(0), left_count |-> None,
     panic |-> FALSE, overflow |-> FALSE]

\* a classifier that does not know the interest token "利息归本"
ClassifyNoInterest(o, column) ==
    IF column = B_ZhengQuanMaiChu THEN with_kind(with_trade(o, "Sell"), K_MaiChu)
    ELSE IF column \in {B_ZhengQuanMaiRu, B_KaiFangJiJinRenGouJieGuo}
        THEN with_kind(with_trade(o, "Buy"), K_MaiRu)
    ELSE IF column \in {B_YinZhengZhuanCun, B_YinHangZhuanCun}
        THEN with_kind(with_trade(o, "In"), K_YinZhengZhuanRu)
    ELSE IF column \in {B_YinZhengZhuanQu, B_YinHangZhuanQu}
        THEN with_kind(with_trade(o, "Out"), K_YinZhengZhuanChu)
    ELSE with_trade(o, "Ignore")

\* the inner match on the business-type column (htsc.rs:93-115): the match is
\* on the column as split, not on the trimmed value; the Ignore arm leaves the
\* label alone (continue)
Classify(o, column) ==
    IF column = B_ZhengQuanMaiChu THEN with_kind(with_trade(o, "Sell"), K_MaiChu)
    ELSE IF column \in {B_ZhengQuanMaiRu, B_KaiFangJiJinRenGouJieGuo}
        THEN with_kind(with_trade(o, "Buy"), K_MaiRu)
    ELSE IF column \in {B_YinZhengZhuanCun, B_YinHangZhuanCun, B_LiXiGuiBen}
        THEN with_kind(with_trade(o, "In"), K_YinZhengZhuanRu)
    ELSE IF column \in {B_YinZhengZhuanQu, B_YinHangZhuanQu}
        THEN with_kind(with_trade(o, "Out"), K_YinZhengZhuanChu)
    ELSE with_trade(o, "Ignore")

\* count = count.abs() (htsc.rs:84), a the outcome of abs
Counted(st, a) ==
    [st EXCEPT !.count = a.val, !.panic = a.panic, !.overflow = @ \/ a.overflow]

\* the quantity column (htsc.rs:79-85): parse::<f64>().expect(..) as i64, abs
QuantityColumn(checks, st, f) ==
    IF f.ok THEN Counted(st, Abs(checks, AsI64(f))) ELSE [st EXCEPT !.panic = TRUE]

\* the vendor's remaining quantity (htsc.rs:117-119): parse::<f64>().unwrap() as i64
LeftCountColumn(st, f) ==
    IF f.ok THEN [st EXCEPT !.left_count = Some(AsI64(f))] ELSE [st EXCEPT !.panic = TRUE]

\* the match on the title for one trimmed value (htsc.rs:69-121)
MatchTitle(checks, st, title, column, value) ==
    IF title \in {T_FaShengRiQi, T_RiQi}
        THEN [st EXCEPT !.delivery_order = with_date(@, value)]
    ELSE IF title = T_ZhengQuanDaiMa
        THEN [st EXCEPT !.delivery_order = with_code(@, value)]
    ELSE IF title \in {T_ZhengQuanMingCheng, T_GuPiaoMingCheng}
        THEN [st EXCEPT !.delivery_order = with_name(@, value)]
    ELSE IF title \in {T_ChengJiaoShuLiang, T_FaShengShuLiang}
        THEN QuantityColumn(checks, st, ParseF64(value))
    ELSE IF title \in {T_ChengJiaoJiaGe, T_ChengJiaoJunJia}
        THEN [st EXCEPT !.delivery_order = with_prize(@, value)]
    ELSE IF title \in {T_FaShengJinE, T_ShouFuJinE}
        THEN [st EXCEPT !.delivery_order = with_amount(@, value)]
    ELSE IF title \in {T_YeWuMingCheng, T_YeWuBiaoZhi}
        THEN [st EXCEPT !.delivery_order = Classify(@, column)]
    ELSE IF title = T_ZhengQuanShuLiang
        THEN LeftCountColumn(st, ParseF64(value))
    ELSE st

\* one iteration of the loop over (title, column) (htsc.rs:66-122)
GenOrderColumn(checks, st, title, column) ==
    MatchTitle(checks, st, title, column, Trim(column))

\* the loop over titles.iter().zip(columns.iter()), from pair i on; a panic
\* ends it
RECURSIVE GenOrderLoop(_, _, _, _, _)
GenOrderLoop(checks, titles, columns, i, st) ==
    IF i > Len(titles) \/ i > Len(columns) \/ st.panic THEN st
    ELSE GenOrderLoop(checks, titles, columns, i + 1,
                      GenOrderColumn(checks, st, titles[i], columns[i]))

\* what a gen_order call that panics leaves: the Context as before, no order
GenOrderPanic(c, build) ==
    [panic |-> TRUE, order |-> DeliveryOrderDefault, ctx |-> c, printed |-> <<>>,
     count |-> I64(0), left_count |-> None, build |-> build]

\* a ledger check that trusts the vendor: on a mismatch the vendor's value is
\* attached to the order
AttachVendor(c, o, count, left_count, total, build) ==
    [panic |-> FALSE,
     order |-> IF total.some /\ left_count.some /\ left_count.val # total.val
               THEN with_owned(o, I64ToString(left_count.val))
               ELSE IF total.some THEN with_owned(o, I64ToString(total.val)) ELSE o,
     ctx |-> c,
     printed |-> IF total.some /\ left_count.some /\ left_count.val # total.val
                 THEN <<[left_count |-> left_count.val, count |-> total.val,
                         date |-> o.date]>>
                 ELSE <<>>,
     count |-> count, left_count |-> left_count, build |-> build]

\* the comparison with the vendor's remaining quantity and the running total
\* attached to the order (htsc.rs:128-142); c is the Context after add_count
AttachOwned(c, o, count, left_count, total, build) ==
    [panic |-> FALSE,
     order |-> IF total.some THEN with_owned(o, I64ToString(total.val)) ELSE o,
     ctx |-> c,
     printed |-> IF total.some /\ left_count.some /\ left_count.val # total.val
                 THEN <<[left_count |-> left_count.val, count |-> total.val,
                         date |-> o.date]>>
                 ELSE <<>>,
     count |-> count, left_count |-> left_count, build |-> build]

\* a ledger that only counts the orders that are kept
UpdateLedgerValidOnly(checks, c, o, count, left_count, overflow) ==
    IF ~is_valid(o)
    THEN AttachOwned(c, with_count(o, I64ToString(count)), count, left_count,
                     get_count(c, o.code), Build(checks, overflow))
    ELSE IF Added(c, o.code, Arith(checks, IntAdd(Entry(c, o.code), count))).panic
    THEN GenOrderPanic(c, "debug")
    ELSE AttachOwned(Added(c, o.code, Arith(checks, IntAdd(Entry(c, o.code), count))).ctx,
                     with_count(o, I64ToString(count)), count, left_count,
                     Some(Wrap(IntAdd(Entry(c, o.code), count))),
                     Build(checks, overflow
                               \/ ~FitsI64(IntAdd(Entry(c, o.code), count))))

\* add_count, with_count, get_count (htsc.rs:126-128); overflow says whether
\* an operation before these overflowed
UpdateLedger(checks, c, o, count, left_count, overflow) ==
    IF add_count(checks, c, o.code, count).panic THEN GenOrderPanic(c, "debug")
    ELSE AttachOwned(add_count(checks, c, o.code, count).ctx,
                     with_count(o, I64ToString(count)), count, left_count,
                     get_count(add_count(checks, c, o.code, count).ctx, o.code),
                     Build(checks, overflow \/ add_count(checks, c, o.code, count).overflow))

\* the sign of the quantity (htsc.rs:123-125): count = -count for a Sell
SignedCount(checks, trade, count) ==
    IF trade = "Sell" THEN Neg(checks, count) ELSE Arith(checks, count)

\* gen_order after the loop (htsc.rs:123-142)
GenOrderFinish(checks, c, st) ==
    IF st.panic THEN GenOrderPanic(c, Build(checks, st.overflow))
    ELSE IF SignedCount(checks, st.delivery_order.trade, st.count).panic
    THEN GenOrderPanic(c, "debug")
    ELSE UpdateLedger(checks, c, st.delivery_order,
                      SignedCount(checks, st.delivery_order.trade, st.count).val,
                      st.left_count,
                      st.overflow
                          \/ SignedCount(checks, st.delivery_order.trade, st.count).overflow)

\* gen_order without the assertion: zip stops at the shorter of the two
GenOrderColumnsZip(checks, c, titles, columns) ==
    IF Len(columns) < Len(titles)
    THEN GenOrderFinish(checks, c, GenOrderLoop(checks, SubSeq(titles, 1, Len(columns)),
                                                columns, 1, GenOrderLocals))
    ELSE GenOrderFinish(checks, c, GenOrderLoop(checks, titles,
                                                SubSeq(columns, 1, Len(titles)), 1,
                                                GenOrderLocals))

\* gen_order once the line is split (htsc.rs:60-142)
GenOrderColumns(checks, c, titles, columns) ==
    IF Len(columns) # Len(titles) THEN GenOrderPanic(c, "any")
    ELSE GenOrderFinish(checks, c, GenOrderLoop(checks, titles, columns, 1, GenOrderLocals))

\* gen_order(&mut self, titles, line): the order returned, the Context after
\* the call, whether the call panicked (assert_eq!, expect, unwrap, overflow
\* check: then the Context is as before and there is no order), and the
\* diagnostic printed, if any
gen_order(checks, c, titles, line) ==
    GenOrderColumns(checks, c, titles, Split(Trim(line), "\t"))

(***************************************************************************)
(* Context::gen_title (htsc.rs:42-55): the header row of the sheet.        *)
(***************************************************************************)
gen_title ==
    << <<"cheng2", "jiao", "ri", "qi">>,      \* "成交日期"
       T_ZhengQuanDaiMa,                      \* "证券代码"
       T_ZhengQuanMingCheng,                  \* "证券名称"
       <<"jiao", "yi", "lei", "bie">>,        \* "交易类别"
       T_ChengJiaoShuLiang,                   \* "成交数量"
       T_ChengJiaoJiaGe,                      \* "成交价格"
       T_FaShengJinE,                         \* "发生金额"
       <<"zheng", "quan", "yu", "e2">> >>     \* "证券余额"

(***************************************************************************)
(* Inputs of the model: paths, title lines and data lines as the decoded   *)
(* text read_until hands over (line terminator included).                  *)
(***************************************************************************)
RECURSIVE Join(_, _)
Join(fields, sep) ==
    IF Len(fields) = 0 THEN <<>>
    ELSE IF Len(fields) = 1 THEN fields[1]
    ELSE fields[1] \o <<sep>> \o Join(Tail(fields), sep)

Row(fields) == Join(fields, "\t") \o <<"\n">>

\* "a.txt" and "b.txt" are accepted, "a.csv" is not (extract_from_file panics)
PathTxt == <<"a", ".", "t", "x", "t">>
PathCsv == <<"a", ".", "c", "s", "v">>
PathBulk == <<"b", ".", "t", "x", "t">>
Paths == {PathTxt, PathCsv}

\* date, code, business type, quantity, vendor remaining quantity
TitlesA == <<T_RiQi, T_ZhengQuanDaiMa, T_YeWuMingCheng, T_ChengJiaoShuLiang,
             T_ZhengQuanShuLiang>>
\* code and quantity only: no business-type column
TitlesB == <<T_ZhengQuanDaiMa, T_FaShengShuLiang>>

TitleLines == {Row(TitlesA), Join(TitlesB, "\t") \o <<"\r", "\n">>}

\* Buy 100 of A, vendor says 100 remain
LineBuyA == Row(<< <<"1">>, <<"A">>, B_ZhengQuanMaiRu, <<"1", "0", "0">>, <<"1", "0", "0">> >>)
\* Sell 50.0 of A, vendor says 150 remain
LineSellA == Row(<< <<"2">>, <<"A">>, B_ZhengQuanMaiChu, <<"5", "0", ".", "0">>,
                    <<"1", "5", "0">> >>)
\* transfer in for B with quantity text -7, vendor says 0 remain
LineInB == Row(<< <<"3">>, <<"B">>, B_YinZhengZhuanCun, <<"-", "7">>, <<"0">> >>)
\* an unrecognized business type for A, quantity 5
LineOtherA == Row(<< <<"4">>, <<"A">>, <<"qi2", "ta">>, <<"5">>, <<"0">> >>)
\* five fields, quantity not numeric
LineBadQty == Row(<< <<"5">>, <<"A">>, B_ZhengQuanMaiRu, <<"x">>, <<"0">> >>)
\* two fields: a line of the TitlesB shape
LineTwo == Row(<< <<"A">>, <<"9">> >>)

DataLines == {LineBuyA, LineSellA, LineInB, LineOtherA, LineBadQty, LineTwo}

\* the long file "b.txt": BulkLen times this line
BulkLine == LineBuyA

\* "c.txt" is an export with cash movements: lines without a security code
PathCash == <<"c", ".", "t", "x", "t">>

\* date, business type, quantity: no code column
TitlesCash == <<T_FaShengRiQi, T_YeWuBiaoZhi, T_FaShengShuLiang>>
\* date, code, business type, quantity
TitlesCode == <<T_RiQi, T_ZhengQuanDaiMa, T_YeWuMingCheng, T_ChengJiaoShuLiang>>
\* code, business type: no quantity column
TitlesNoQty == <<T_ZhengQuanDaiMa, T_YeWuMingCheng>>

CashTitleLines == {Row(TitlesCash), Row(TitlesCode), Row(TitlesNoQty)}

\* three fields: cash in 7, cash out 3, an unrecognized movement of 9
LineCashIn == Row(<< <<"1">>, B_YinZhengZhuanCun, <<"7">> >>)
LineCashOut == Row(<< <<"2">>, B_YinZhengZhuanQu, <<"3">> >>)
LineCashOther == Row(<< <<"3">>, <<"qi2", "ta">>, <<"9">> >>)
\* four fields, the code empty: interest 7, cash out 3
LineNoCodeIn == Row(<< <<"4">>, <<>>, B_LiXiGuiBen, <<"7">> >>)
LineNoCodeOut == Row(<< <<"5">>, <<>>, B_YinHangZhuanQu, <<"3">> >>)
\* four fields: Buy 100 of A, an unrecognized movement of 5 of A
LineCodeBuyA == Row(<< <<"6">>, <<"A">>, B_ZhengQuanMaiRu, <<"1", "0", "0">> >>)
LineCodeOtherA == Row(<< <<"7">>, <<"A">>, <<"qi2", "ta">>, <<"5">> >>)
\* two fields: a buy of A, an unrecognized movement of A
LineNoQtyBuyA == Row(<< <<"A">>, B_ZhengQuanMaiRu >>)
LineNoQtyOtherA == Row(<< <<"A">>, <<"qi2", "ta">> >>)
\* a blank line
LineBlank == <<"\r", "\n">>
\* four fields: Buy i64::MAX of A
LineCodeHugeA == Row(<< <<"8">>, <<"A">>, B_ZhengQuanMaiRu,
                        <<"9", "2", "2", "3", "3", "7", "2", "0", "3", "6", "8", "5", "4",
                          "7", "7", "5", "8", "0", "7">> >>)

CashLines == {LineCashIn, LineCashOut, LineCashOther, LineNoCodeIn, LineNoCodeOut,
              LineCodeBuyA, LineCodeOtherA, LineNoQtyBuyA, LineNoQtyOtherA, LineBlank,
              LineCodeHugeA}

(***************************************************************************)
(* State.                                                                  *)
(***************************************************************************)
VARIABLES
    paths,              \* main: inputs["HTSC"], the paths in argument order
    counter_reader,     \* main: the AtomicI32 counting the input arguments
    ctx,                \* the Context behind Arc<Mutex<..>>
    locked,             \* the Mutex is held
    queue,              \* the bounded channel, oldest item first
    ppc,                \* producer task: where it is
    fi,                 \* producer task: index in paths of the current path
    title,              \* extract_from_file_impl: the title row
    li,                 \* data lines of the current file read so far
    pending,            \* the item the producer is sending
    cpc,                \* main and the consumer it runs: where it is
    counter,            \* write_htsc_to_tzzb_excel: rows written
    read_stop_counter,  \* write_htsc_to_tzzb_excel: sentinels received
    sheet,              \* the worksheet: the rows written whole, in order
    trace,              \* history: every gen_order call, in order
    stdout              \* history: the "Count not equal" lines printed

vars == <<paths, counter_reader, ctx, locked, queue, ppc, fi, title, li, pending,
          cpc, counter, read_stop_counter, sheet, trace, stdout>>

producerVars == <<ctx, locked, ppc, fi, title, li, pending, trace, stdout>>
consumerVars == <<cpc, counter, read_stop_counter, sheet>>

\* what travels on the channel: Some(order) or None.  file and line say where
\* the item comes from (history, not program state).
Item(o, f, l) == [some |-> TRUE, order |-> o, file |-> f, line |-> l]
Sentinel(f) == [some |-> FALSE, order |-> DeliveryOrderDefault, file |-> f, line |-> 0]

RECURSIVE SeqsOf(_, _)
SeqsOf(S, n) ==
    IF n = 0 THEN {<<>>}
    ELSE {Append(q, x) : q \in SeqsOf(S, n - 1), x \in S}

\* The state of main after getopt! (main.rs:78-91): the callback has pushed
\* every positional argument under "HTSC" and counted it.  The input option is
\* forced ("input=p!@*"), so there is at least one path.
Init ==
    /\ \E n \in 1..MaxFiles : paths \in SeqsOf(Paths, n)
    /\ counter_reader = Len(paths)
    /\ ctx = ContextNew
    /\ locked = FALSE
    /\ queue = <<>>
    /\ ppc = "unspawned"
    /\ fi = 1
    /\ title = <<>>
    /\ li = 0
    /\ pending = Sentinel(0)
    /\ cpc = "main"
    /\ counter = 0
    /\ read_stop_counter = 0
    /\ sheet = <<>>
    /\ trace = <<>>
    /\ stdout = <<>>

(***************************************************************************)
(* main (main.rs:92-115).                                                  *)
(***************************************************************************)
\* one task is spawned per file type; every path is of type HTSC, so one
\* task gets all the paths; main then runs the consumer
MainSpawn ==
    /\ cpc = "main"
    /\ counter_reader > 0
    /\ ppc' = "lock"
    /\ cpc' = "write"
    /\ UNCHANGED <<paths, counter_reader, ctx, locked, queue, fi, title, li, pending,
                   counter, read_stop_counter, sheet, trace, stdout>>

\* the consumer has returned the error of a sink operation (main.rs:126-159)
SinkFailed == cpc \in {"failed", "returned", "exited"}

\* main keeps the Receiver (main.rs:28) until its future returns; the channel
\* is closed when its last Receiver is dropped
ChannelOpen == cpc \notin {"returned", "exited"}

\* the producer task is never joined or cancelled (main.rs:96): it runs until
\* the process exits
ProcessAlive == cpc # "exited"

(***************************************************************************)
(* The producer task: htsc::extract_from_file (htsc.rs:211-226) and        *)
(* Context::extract_from_file, extract_from_file_impl (htsc.rs:145-208).   *)
(***************************************************************************)
\* a guard dropped as soon as it is taken: the file is read without the lock
LockDropped ==
    /\ ProcessAlive
    /\ ppc = "lock"
    /\ ~locked
    /\ locked' = FALSE
    /\ ppc' = "extract"
    /\ UNCHANGED <<paths, counter_reader, ctx, queue, fi, title, li, pending, trace, stdout>>
    /\ UNCHANGED consumerVars

\* for path in paths { ctx.lock().await ... }: the guard lives until the
\* statement ends, that is until the file is done
Lock ==
    /\ ProcessAlive
    /\ ppc = "lock"
    /\ ~locked
    /\ locked' = TRUE
    /\ ppc' = "extract"
    /\ UNCHANGED <<paths, counter_reader, ctx, queue, fi, title, li, pending, trace, stdout>>
    /\ UNCHANGED consumerVars

\* Context::extract_from_file: a path that does not end with "txt" panics;
\* the unwinding drops the guard
ExtractUnsupported ==
    /\ ProcessAlive
    /\ ppc = "extract"
    /\ ~EndsWith(paths[fi], <<"t", "x", "t">>)
    /\ ppc' = "panicked"
    /\ locked' = FALSE
    /\ UNCHANGED <<paths, counter_reader, ctx, queue, fi, title, li, pending, trace, stdout>>
    /\ UNCHANGED consumerVars

\* File::open(&path).await? fails: the error ends the task (the paths left
\* are not read)
OpenErr ==
    /\ ProcessAlive
    /\ ppc = "extract"
    /\ EndsWith(paths[fi], <<"t", "x", "t">>)
    /\ ppc' = "failed"
    /\ locked' = FALSE
    /\ UNCHANGED <<paths, counter_reader, ctx, queue, fi, title, li, pending, trace, stdout>>
    /\ UNCHANGED consumerVars

OpenOk ==
    /\ ProcessAlive
    /\ ppc = "extract"
    /\ EndsWith(paths[fi], <<"t", "x", "t">>)
    /\ ppc' = "title"
    /\ title' = <<>>
    /\ li' = 0
    /\ UNCHANGED <<paths, counter_reader, ctx, locked, queue, fi, pending, trace, stdout>>
    /\ UNCHANGED consumerVars

\* the title rows the files of the model hold: "c.txt" has one of
\* CashTitleLines, the other files one of TitleLines
MayReadTitle(line) ==
    IF paths[fi] = PathCash THEN line \in CashTitleLines ELSE line \in TitleLines

\* the first read_until returns a line: the title row
ReadTitle ==
    /\ ProcessAlive
    /\ ppc = "title"
    /\ \E line \in TitleLines \cup CashTitleLines :
           MayReadTitle(line) /\ title' = Split(Trim(line), "\t")
    /\ ppc' = "read"
    /\ UNCHANGED <<paths, counter_reader, ctx, locked, queue, fi, li, pending, trace, stdout>>
    /\ UNCHANGED consumerVars

\* an early return on an empty file: on to the next path, no sentinel sent
ReadTitleEmptyReturn ==
    /\ ProcessAlive
    /\ ppc = "title"
    /\ title' = <<>>
    /\ locked' = FALSE
    /\ IF fi < Len(paths)
       THEN fi' = fi + 1 /\ ppc' = "lock"
       ELSE fi' = fi /\ ppc' = "done"
    /\ UNCHANGED <<paths, counter_reader, ctx, queue, li, pending, trace, stdout>>
    /\ UNCHANGED consumerVars

\* the first read_until returns 0 (htsc.rs:168): the title stays empty and the
\* loop is entered
ReadTitleEmpty ==
    /\ ProcessAlive
    /\ ppc = "title"
    /\ title' = <<>>
    /\ ppc' = "read"
    /\ UNCHANGED <<paths, counter_reader, ctx, locked, queue, fi, li, pending, trace,
                   stdout>>
    /\ UNCHANGED consumerVars

\* read_until(..).await? fails
ReadErr ==
    /\ ProcessAlive
    /\ ppc \in {"title", "read"}
    /\ ppc' = "failed"
    /\ locked' = FALSE
    /\ UNCHANGED <<paths, counter_reader, ctx, queue, fi, title, li, pending, trace, stdout>>
    /\ UNCHANGED consumerVars

\* the lines the files of the model hold: "b.txt" is the long file, BulkLen
\* times BulkLine; "c.txt" holds MaxLines lines of CashLines; the other files
\* of a run hold MaxLines lines of DataLines between them
MayRead(line) ==
    IF paths[fi] = PathBulk
    THEN line = BulkLine /\ li < BulkLen
    ELSE IF paths[fi] = PathCash
    THEN line \in CashLines /\ Len(trace) < MaxLines
    ELSE line \in DataLines /\ Len(trace) < MaxLines

\* the builds the run can be of: with overflow checks (TRUE) or without; a run
\* in which an overflow has wrapped is one without
Builds == IF \E i \in 1..Len(trace) : trace[i].build = "release" THEN {FALSE}
          ELSE {TRUE, FALSE}

\* what the history keeps of one gen_order call: where the line comes from,
\* the arguments (c is the Context before the call) and the result
Call(f, l, titles, line, c, r) ==
    [file |-> f, lineno |-> l, titles |-> titles, line |-> line, before |-> c,
     panic |-> r.panic, order |-> r.order, count |-> r.count,
     left_count |-> r.left_count, printed |-> r.printed, build |-> r.build]

\* the loop body for one line, r the result of gen_order (htsc.rs:185-192)
Extracted(line, r) ==
    /\ trace' = Append(trace, Call(fi, li + 1, title, line, ctx, r))
    /\ li' = li + 1
    /\ ctx' = r.ctx
    /\ stdout' = stdout \o r.printed
    /\ locked' = (locked /\ ~r.panic)
    /\ pending' = IF ~r.panic /\ is_valid(r.order) THEN Item(r.order, fi, li + 1) ELSE pending
    /\ ppc' = IF r.panic THEN "panicked" ELSE IF is_valid(r.order) THEN "send" ELSE "read"

\* read_until returns a line: gen_order, and the order is to be sent if valid;
\* a panic ends the task and the unwinding drops the guard
ReadLine ==
    /\ ProcessAlive
    /\ ppc = "read"
    /\ \E line \in DataLines \cup CashLines, checks \in Builds :
           MayRead(line) /\ Extracted(line, gen_order(checks, ctx, title, line))
    /\ UNCHANGED <<paths, counter_reader, queue, fi, title>>
    /\ UNCHANGED consumerVars

\* read_until returns 0: the sentinel is to be sent
ReadEof ==
    /\ ProcessAlive
    /\ ppc = "read"
    /\ pending' = Sentinel(fi)
    /\ ppc' = "send"
    /\ UNCHANGED <<paths, counter_reader, ctx, locked, queue, fi, title, li, trace, stdout>>
    /\ UNCHANGED consumerVars

\* an unbounded channel
HasRoomAlways(q) == Len(q) >= 0

\* bounded(128): a send waits while the channel holds Capacity items
HasRoom(q) == Len(q) < Capacity

\* a channel that hands over the newest item first
ChannelSendFront(q, item) == <<item>> \o q

\* Channel send: appends at the tail
ChannelSend(q, item) == Append(q, item)

\* sender.send(Some(order)).await: back to the loop
SendOrder ==
    /\ ProcessAlive
    /\ ChannelOpen
    /\ ppc = "send"
    /\ pending.some
    /\ HasRoom(queue)
    /\ queue' = ChannelSend(queue, pending)
    /\ ppc' = "read"
    /\ UNCHANGED <<paths, counter_reader, ctx, locked, fi, title, li, pending, trace, stdout>>
    /\ UNCHANGED consumerVars

\* sender.send(None).await; break; Ok(()): the guard is dropped and the for
\* loop goes to the next path, or the task ends
SendNone ==
    /\ ProcessAlive
    /\ ChannelOpen
    /\ ppc = "send"
    /\ ~pending.some
    /\ HasRoom(queue)
    /\ queue' = ChannelSend(queue, pending)
    /\ locked' = FALSE
    /\ IF fi < Len(paths)
       THEN fi' = fi + 1 /\ ppc' = "lock"
       ELSE fi' = fi /\ ppc' = "done"
    /\ UNCHANGED <<paths, counter_reader, ctx, title, li, pending, trace, stdout>>
    /\ UNCHANGED consumerVars

\* sender.send(..).await on the closed channel returns Err, whether there is
\* room or not, and expect panics (htsc.rs:188-197); the unwinding drops the
\* guard
SendClosed ==
    /\ ProcessAlive
    /\ ppc = "send"
    /\ ~ChannelOpen
    /\ ppc' = "panicked"
    /\ locked' = FALSE
    /\ UNCHANGED <<paths, counter_reader, ctx, queue, fi, title, li, pending, trace, stdout>>
    /\ UNCHANGED consumerVars

Producer ==
    \/ Lock
    \/ ExtractUnsupported
    \/ OpenErr
    \/ OpenOk
    \/ ReadTitle
    \/ ReadTitleEmpty
    \/ ReadErr
    \/ ReadLine
    \/ ReadEof
    \/ SendOrder
    \/ SendNone
    \/ SendClosed

(***************************************************************************)
(* The consumer: write_htsc_to_tzzb_excel (main.rs:119-162).               *)
(***************************************************************************)
\* the columns written for one order (main.rs:141-148)
Cells(o) == <<o.date, o.code, o.name, o.kind, o.count, o.prize, o.amount, o.owned>>

\* the header row (main.rs:124-132)
WriteTitle ==
    /\ cpc = "write"
    /\ sheet' = <<[row |-> 0, cells |-> gen_title, item |-> Sentinel(0)]>>
    /\ counter' = 0
    /\ read_stop_counter' = 0
    /\ cpc' = "recv"
    /\ UNCHANGED <<paths, counter_reader, queue>>
    /\ UNCHANGED producerVars

\* add_worksheet(None)? fails, or a write_string of the header row does
\* (main.rs:126-132): the function returns the error.  The sheet keeps the
\* rows written whole; the workbook is never closed.
WriteTitleErr ==
    /\ cpc = "write"
    /\ sheet' = <<>>
    /\ counter' = 0
    /\ read_stop_counter' = 0
    /\ cpc' = "failed"
    /\ UNCHANGED <<paths, counter_reader, queue>>
    /\ UNCHANGED producerVars

\* recv() gives Some(order) and a write_string of its row fails
\* (main.rs:140-148): the order is taken and counted, its row is not written
\* whole, the function returns the error
RecvOrderErr ==
    /\ cpc = "recv"
    /\ queue # <<>>
    /\ Head(queue).some
    /\ queue' = Tail(queue)
    /\ counter' = counter + 1
    /\ cpc' = "failed"
    /\ UNCHANGED <<paths, counter_reader, read_stop_counter, sheet>>
    /\ UNCHANGED producerVars

\* recv() gives Some(order): one more row
RecvOrder ==
    /\ cpc = "recv"
    /\ queue # <<>>
    /\ Head(queue).some
    /\ queue' = Tail(queue)
    /\ counter' = counter + 1
    /\ sheet' = Append(sheet, [row |-> counter + 1, cells |-> Cells(Head(queue).order),
                               item |-> Head(queue)])
    /\ UNCHANGED <<paths, counter_reader, cpc, read_stop_counter>>
    /\ UNCHANGED producerVars

\* a loop that ends at the first sentinel
AllStoppedFirst(stops, n) == stops >= 1 /\ n >= 1

\* the test that ends the loop (main.rs:151)
AllStopped(stops, n) == stops = n

\* recv() gives None: one more sentinel; the loop ends and the workbook is
\* closed when there are as many as input files
RecvNone ==
    /\ cpc = "recv"
    /\ queue # <<>>
    /\ ~Head(queue).some
    /\ queue' = Tail(queue)
    /\ read_stop_counter' = read_stop_counter + 1
    /\ cpc' = IF AllStopped(read_stop_counter + 1, counter_reader) THEN "done" ELSE "recv"
    /\ UNCHANGED <<paths, counter_reader, counter, sheet>>
    /\ UNCHANGED producerVars

\* recv() gives the last None and workbook.close()? fails (main.rs:150-159)
RecvNoneCloseErr ==
    /\ cpc = "recv"
    /\ queue # <<>>
    /\ ~Head(queue).some
    /\ AllStopped(read_stop_counter + 1, counter_reader)
    /\ queue' = Tail(queue)
    /\ read_stop_counter' = read_stop_counter + 1
    /\ cpc' = "failed"
    /\ UNCHANGED <<paths, counter_reader, counter, sheet>>
    /\ UNCHANGED producerVars

\* the error is returned by main's future (main.rs:114): main's Sender and
\* Receiver are dropped
MainReturn ==
    /\ cpc = "failed"
    /\ cpc' = "returned"
    /\ UNCHANGED <<paths, counter_reader, queue, counter, read_stop_counter, sheet>>
    /\ UNCHANGED producerVars

\* block_on has returned and the error is reported: the process exits, and
\* the producer task with it
ProcessExit ==
    /\ cpc = "returned"
    /\ cpc' = "exited"
    /\ UNCHANGED <<paths, counter_reader, queue, counter, read_stop_counter, sheet>>
    /\ UNCHANGED producerVars

Consumer ==
    \/ MainSpawn
    \/ WriteTitle
    \/ WriteTitleErr
    \/ RecvOrder
    \/ RecvOrderErr
    \/ RecvNone
    \/ RecvNoneCloseErr
    \/ MainReturn
    \/ ProcessExit

Next ==
    \/ MainSpawn
    \/ WriteTitle
    \/ WriteTitleErr
    \/ RecvOrder
    \/ RecvOrderErr
    \/ RecvNone
    \/ RecvNoneCloseErr
    \/ MainReturn
    \/ ProcessExit
    \/ Lock
    \/ ExtractUnsupported
    \/ OpenErr
    \/ OpenOk
    \/ ReadTitle
    \/ ReadTitleEmpty
    \/ ReadErr
    \/ ReadLine
    \/ ReadEof
    \/ SendOrder
    \/ SendNone
    \/ SendClosed

Spec == Init /\ [][Next]_vars

\* a run on the long file alone, or on an unsupported path alone
BulkInit ==
    /\ paths \in {<<PathBulk>>, <<PathCsv>>}
    /\ counter_reader = Len(paths)
    /\ ctx = ContextNew
    /\ locked = FALSE
    /\ queue = <<>>
    /\ ppc = "unspawned"
    /\ fi = 1
    /\ title = <<>>
    /\ li = 0
    /\ pending = Sentinel(0)
    /\ cpc = "main"
    /\ counter = 0
    /\ read_stop_counter = 0
    /\ sheet = <<>>
    /\ trace = <<>>
    /\ stdout = <<>>

BulkSpec == BulkInit /\ [][Next]_vars

\* a run on the export with cash movements alone, or on an unsupported path
CashInit ==
    /\ paths \in {<<PathCash>>, <<PathCsv>>}
    /\ counter_reader = Len(paths)
    /\ ctx = ContextNew
    /\ locked = FALSE
    /\ queue = <<>>
    /\ ppc = "unspawned"
    /\ fi = 1
    /\ title = <<>>
    /\ li = 0
    /\ pending = Sentinel(0)
    /\ cpc = "main"
    /\ counter = 0
    /\ read_stop_counter = 0
    /\ sheet = <<>>
    /\ trace = <<>>
    /\ stdout = <<>>

CashSpec == CashInit /\ [][Next]_vars

\* the runs of Spec, of BulkSpec and of CashSpec together
AllInit == Init \/ BulkInit \/ CashInit

\* the executor runs every task that can run; main runs the consumer
FairSpec ==
    /\ AllInit
    /\ [][Next]_vars
    /\ WF_vars(Producer)
    /\ WF_vars(Consumer)

(***************************************************************************)
(* gen_order on its own: one call on a Context, for the properties of the  *)
(* column mapper, the classifier and the ledger update.                    *)
(***************************************************************************)
\* title rows: all families; quantity first and synonyms; no business type
GenTitlesFull == TitlesA
GenTitlesSyn == <<T_FaShengShuLiang, T_YeWuBiaoZhi, T_ZhengQuanDaiMa>>
GenTitlesBare == TitlesB

\* the last one is "A" behind an ideographic space
GenCodes == {<<"A">>, <<"B">>, <<>>, <<"U+3000", "A">>}

\* the eight tokens of the table, an unknown token, an empty one and a known
\* token behind a space
GenTokens ==
    {B_ZhengQuanMaiChu, B_ZhengQuanMaiRu, B_KaiFangJiJinRenGouJieGuo, B_YinZhengZhuanCun,
     B_YinHangZhuanCun, B_LiXiGuiBen, B_YinZhengZhuanQu, B_YinHangZhuanQu,
     <<"qi2", "ta">>, <<>>, <<" ">> \o B_ZhengQuanMaiChu}

\* "9223372036854775807", i64::MAX
TextI64Max == <<"9", "2", "2", "3", "3", "7", "2", "0", "3", "6", "8", "5", "4", "7", "7",
                "5", "8", "0", "7">>
\* "-9223372036854775808", i64::MIN
TextI64Min == <<"-", "9", "2", "2", "3", "3", "7", "2", "0", "3", "6", "8", "5", "4", "7",
                "7", "5", "8", "0", "8">>
\* "0.99999999999999999": the nearest double is 1.0
TextNearOne == <<"0", ".", "9", "9", "9", "9", "9", "9", "9", "9", "9", "9", "9", "9", "9",
                 "9", "9", "9", "9">>

GenQuantities ==
    {<<"1", "0", "0">>, <<"2", "0", "0", ".", "0">>, <<"-", "5", "0">>, <<"0", ".", "9">>,
     <<"+", "3">>, <<"7", ".">>, <<".">>, <<"x">>, <<>>,
     <<"1", "e", "2">>, <<"1", "E", "3", "0">>, <<"-", "i", "n", "f">>, <<"N", "a", "N">>,
     TextI64Max, TextI64Min, TextNearOne}

GenLeftCounts == {<<"0">>, <<"1", "0", "0">>, <<"-", "5", "0">>, <<"x">>, <<"1", "e", "2">>}

GenLines(titles) ==
    IF titles = GenTitlesFull
    THEN {Row(<< <<"1">>, c, b, q, l >>) :
              c \in GenCodes, b \in GenTokens, q \in GenQuantities, l \in GenLeftCounts}
    ELSE IF titles = GenTitlesSyn
    THEN {Row(<<q, b, c>>) : q \in GenQuantities, b \in GenTokens, c \in GenCodes}
    ELSE {Row(<<c, q>>) : c \in GenCodes, q \in GenQuantities}

\* ledgers a Context can hold when gen_order is called
GenContexts ==
    {ContextNew,
     add_count(FALSE, ContextNew, <<"A">>, I64(100)).ctx,
     add_count(FALSE, add_count(FALSE, ContextNew, <<"A">>, I64(0 - 50)).ctx, <<>>,
               I64(5)).ctx,
     add_count(FALSE, ContextNew, <<"A">>, I64Max).ctx}

GenInit ==
    /\ paths = <<PathTxt>>
    /\ counter_reader = Len(paths)
    /\ ctx \in GenContexts
    /\ locked = FALSE
    /\ queue = <<>>
    /\ ppc = "unspawned"
    /\ fi = 1
    /\ title = <<>>
    /\ li = 0
    /\ pending = Sentinel(0)
    /\ cpc = "main"
    /\ counter = 0
    /\ read_stop_counter = 0
    /\ sheet = <<>>
    /\ trace = <<>>
    /\ stdout = <<>>

\* the effect of one call, r its result: a panic leaves the Context alone
Called(titles, line, r) ==
    /\ trace' = Append(trace, Call(0, 1, titles, line, ctx, r))
    /\ ctx' = r.ctx
    /\ stdout' = stdout \o r.printed

GenOrderCall ==
    /\ trace = <<>>
    /\ \E titles \in {GenTitlesFull, GenTitlesSyn, GenTitlesBare} :
           \E line \in GenLines(titles), checks \in BOOLEAN :
               Called(titles, line, gen_order(checks, ctx, titles, line))
    /\ UNCHANGED <<paths, counter_reader, locked, queue, ppc, fi, title, li, pending>>
    /\ UNCHANGED consumerVars

GenNext == GenOrderCall

GenSpec == GenInit /\ [][GenNext]_vars

(***************************************************************************)
(* Views of the history used by the properties.                            *)
(***************************************************************************)
\* the integer a decimal text written by to_string stands for
TextValue(s) ==
    IF Head(s) = "-" THEN Signed(TRUE, DigitsToLimbs(Tail(s)))
    ELSE Signed(FALSE, DigitsToLimbs(s))

\* the orders a sequence of channel items or sheet rows carries
OrdersOf(items) == SelectSeq(items, LAMBDA it : it.some)

\* the items the consumer has written, in sheet order (row 0 is the header)
SheetItems == [i \in 1..(Len(sheet) - 1) |-> sheet[i + 1].item]

\* the gen_order calls that returned a valid order, in call order
ValidCalls == SelectSeq(trace, LAMBDA e : ~e.panic /\ e.order.trade # "Ignore")

\* the items these calls give
ItemsOf(calls) ==
    <<>> \o [i \in 1..Len(calls) |-> Item(calls[i].order, calls[i].file, calls[i].lineno)]

\* the items the producer has to deliver for the lines read so far
ValidItems == ItemsOf(ValidCalls)

\* the Context after call i of the history
After(i) == IF i < Len(trace) THEN trace[i + 1].before ELSE ctx

\* the ledger value of a code in a Context, 0 when the code is unknown
Total(c, code) == IF code \in DOMAIN c.count THEN c.count[code] ELSE I64(0)

\* the build of a call of the history: with overflow checks or without (a
\* call in which nothing overflowed is the same in both)
ChecksOf(e) == e.build = "debug"

\* the sum, as an integer of any size, of the stored quantities of the calls
\* 1..i of the history that returned an order for this code
RECURSIVE SumStored(_, _)
SumStored(code, i) ==
    IF i = 0 THEN I64(0)
    ELSE IntAdd(SumStored(code, i - 1),
                IF ~trace[i].panic /\ trace[i].order.code = code
                THEN TextValue(trace[i].order.count) ELSE I64(0))

\* the consumer has left its loop: every sentinel is in
LoopEnded == cpc = "done" \/ (SinkFailed /\ read_stop_counter = counter_reader)

\* every record is written once, nothing is in the channel, the producer has
\* ended
AllWritten ==
    /\ read_stop_counter = Len(paths)
    /\ SheetItems = ValidItems
    /\ counter = Len(ValidItems)
    /\ queue = <<>>
    /\ ppc = "done"

(***************************************************************************)
(* C1  Sentinel accounting.  As claimed: when the consumer has terminated  *)
(* it has received exactly as many sentinels as there are input files, the *)
(* rows it wrote are exactly the valid records of all the files, each once *)
(* and in order, nothing is left in the channel and the producer has       *)
(* ended.                                                                  *)
(***************************************************************************)
C1_SentinelAccounting == cpc = "done" \/ SinkFailed => AllWritten

(***************************************************************************)
(* C1 as amended: the consumer leaves its receive loop only when it has    *)
(* received exactly as many sentinels as there are input files, and then   *)
(* the rows it wrote are exactly the valid records of all the files, each  *)
(* once and in order, nothing is left in the channel and the producer has  *)
(* ended; a consumer that stops before that has stopped on an error of the *)
(* sink, with fewer sentinels than files.                                  *)
(***************************************************************************)
C1_LoopEndAccounting ==
    /\ LoopEnded => AllWritten
    /\ SinkFailed /\ ~LoopEnded => read_stop_counter < Len(paths)

\* two files, both with a row in the sheet, and a line that was dropped
C1_Witness ==
    /\ cpc = "done"
    /\ Len(paths) = 2
    /\ counter = 2
    /\ \E i, j \in 2..Len(sheet) : sheet[i].item.file = 1 /\ sheet[j].item.file = 2
    /\ \E i \in 1..Len(trace) : ~trace[i].panic /\ trace[i].order.trade = "Ignore"

(***************************************************************************)
(* C2  Running total: the ledger value of every code is the sum of the     *)
(* signed quantities of the lines processed so far with that code, over    *)
(* all the files of the run; the runningBalance of each record is that sum *)
(* right after the record's own update.  Buy 100, Buy 100, Sell 50 of one  *)
(* code give 100, 200, 150.                                                *)
(***************************************************************************)
C2_RunningTotal ==
    /\ DOMAIN ctx.count = {trace[i].order.code : i \in {j \in 1..Len(trace) : ~trace[j].panic}}
    /\ \A code \in DOMAIN ctx.count : ctx.count[code] = SumStored(code, Len(trace))
    /\ \A i \in 1..Len(trace) :
           ~trace[i].panic =>
               /\ trace[i].order.code \in DOMAIN After(i).count
               /\ trace[i].order.owned = I64ToString(After(i).count[trace[i].order.code])
               /\ After(i).count[trace[i].order.code] = SumStored(trace[i].order.code, i)
    /\ [i \in 1..Len(trace) |-> <<trace[i].titles, trace[i].line>>] =
           << <<TitlesA, LineBuyA>>, <<TitlesA, LineBuyA>>, <<TitlesA, LineSellA>> >> =>
               [i \in 1..Len(trace) |-> trace[i].order.owned] =
                   << <<"1", "0", "0">>, <<"2", "0", "0">>, <<"1", "5", "0">> >>

(***************************************************************************)
(* C3  Filter invariant: an order whose action is Ignore is never being    *)
(* sent, never in the channel and never in the sheet; every row written    *)
(* has action Buy, Sell, In or Out.                                        *)
(***************************************************************************)
C3_FilterInvariant ==
    /\ ppc = "send" /\ pending.some => pending.order.trade \in {"Buy", "Sell", "In", "Out"}
    /\ \A i \in 1..Len(queue) :
           queue[i].some => queue[i].order.trade \in {"Buy", "Sell", "In", "Out"}
    /\ \A i \in 2..Len(sheet) : sheet[i].item.order.trade \in {"Buy", "Sell", "In", "Out"}
    /\ \A i \in 1..Len(trace) :
           ~trace[i].panic /\ trace[i].order.trade = "Ignore" =>
               /\ \A k \in 1..Len(queue) :
                      queue[k].some =>
                          <<queue[k].file, queue[k].line>> # <<trace[i].file, trace[i].lineno>>
               /\ \A k \in 2..Len(sheet) :
                      <<sheet[k].item.file, sheet[k].item.line>> #
                          <<trace[i].file, trace[i].lineno>>

\* a finished run that dropped a line without business-type column and a
\* line with an unrecognized token, and wrote a row
C3_Witness ==
    /\ cpc = "done"
    /\ counter >= 1
    /\ \E i \in 1..Len(trace) :
           ~trace[i].panic /\ trace[i].titles = TitlesB /\ trace[i].order.trade = "Ignore"
    /\ \E i \in 1..Len(trace) : ~trace[i].panic /\ trace[i].line = LineOtherA

(***************************************************************************)
(* More views of one gen_order call of the history.                        *)
(***************************************************************************)
\* the columns of the line of a call, as gen_order splits it
ColumnsOf(e) == Split(Trim(e.line), "\t")

\* the positions of the title row that name one of these titles
Positions(titles, names) == {k \in 1..Len(titles) : titles[k] \in names}

\* the last of a non-empty set of positions
Last(S) == CHOOSE k \in S : \A j \in S : j <= k

\* the title row of a call has a quantity column
HasQuantity(e) == Positions(e.titles, {T_ChengJiaoShuLiang, T_FaShengShuLiang}) # {}

\* the trimmed quantity text of the line of a call (the last quantity column
\* counts)
QuantityText(e) ==
    Trim(ColumnsOf(e)[Last(Positions(e.titles, {T_ChengJiaoShuLiang, T_FaShengShuLiang}))])

\* the magnitude gen_order reads from the quantity text of the line, 0 when
\* the title row has no quantity column
Magnitude(e) ==
    IF HasQuantity(e) THEN Abs(FALSE, AsI64(ParseF64(QuantityText(e)))).val ELSE I64(0)

\* v has the magnitude of the number f stands for, truncated to an integer
\* (0 for a NaN, which has none)
TruncationOf(f, v) ==
    IF f.nan THEN v.mag = <<0, 0, 0>> ELSE ~f.huge /\ v.mag = f.whole

\* a sequence without the positions in S
RECURSIVE Without(_, _, _)
Without(q, S, k) ==
    IF k > Len(q) THEN <<>>
    ELSE (IF k \in S THEN <<>> ELSE <<q[k]>>) \o Without(q, S, k + 1)

(***************************************************************************)
(* C4  Sign convention: the stored quantity of every order gen_order       *)
(* returns is <= 0 for Sell and >= 0 for every other action, whatever the  *)
(* sign of the quantity text; its absolute value is the truncated          *)
(* magnitude of that text; the same signed value is added to the ledger.   *)
(* "证券卖出" with quantity "200.0" is stored as -200.                     *)
(***************************************************************************)
C4_SignConvention ==
    \A i \in 1..Len(trace) :
        ~trace[i].panic =>
            /\ trace[i].order.trade = "Sell" =>
                   ~IntLess(I64(0), TextValue(trace[i].order.count))
            /\ trace[i].order.trade # "Sell" =>
                   ~IntLess(TextValue(trace[i].order.count), I64(0))
            /\ IF HasQuantity(trace[i])
               THEN TruncationOf(ParseF64(QuantityText(trace[i])),
                                 TextValue(trace[i].order.count))
               ELSE TextValue(trace[i].order.count) = I64(0)
            /\ trace[i].order.count = I64ToString(TextValue(trace[i].order.count))
            /\ Total(After(i), trace[i].order.code) =
                   IntAdd(Total(trace[i].before, trace[i].order.code),
                          TextValue(trace[i].order.count))
            /\ (/\ trace[i].titles = GenTitlesFull
                /\ ColumnsOf(trace[i])[3] = B_ZhengQuanMaiChu
                /\ ColumnsOf(trace[i])[4] = <<"2", "0", "0", ".", "0">>)
                   => /\ trace[i].order.trade = "Sell"
                      /\ trace[i].order.count = <<"-", "2", "0", "0">>

(***************************************************************************)
(* C5  Intra-file ordering: the rows of the sheet that come from one file  *)
(* are the first valid records of that file, in line order.                *)
(***************************************************************************)
C5_IntraFileOrder ==
    \A f \in 1..Len(paths) :
        /\ SelectSeq(SheetItems, LAMBDA it : it.file = f) =
               SubSeq(SelectSeq(ValidItems, LAMBDA it : it.file = f), 1,
                      Len(SelectSeq(SheetItems, LAMBDA it : it.file = f)))
        /\ \A i, j \in 2..Len(sheet) :
               i < j /\ sheet[i].item.file = f /\ sheet[j].item.file = f
                   => sheet[i].item.line < sheet[j].item.line

\* three rows of the first file, written in line order
C5_Witness ==
    /\ Len(sheet) = 4
    /\ [i \in 1..3 |-> <<sheet[i + 1].item.file, sheet[i + 1].item.line>>] =
           << <<1, 1>>, <<1, 2>>, <<1, 3>> >>

(***************************************************************************)
(* C7  Ledger mismatch is advisory: a call whose vendor remaining quantity *)
(* differs from the running total prints a diagnostic and nothing else     *)
(* changes: the order carries the computed total, not the vendor's value,  *)
(* it is delivered if valid, and the order and the ledger are what the     *)
(* same line gives without the vendor column, or with a matching value.    *)
(***************************************************************************)
\* the call of the history again, without the vendor columns
WithoutVendor(e) ==
    LET vendor == Positions(e.titles, {T_ZhengQuanShuLiang})
    IN  GenOrderColumns(ChecksOf(e), e.before, Without(e.titles, vendor, 1),
                        Without(ColumnsOf(e), vendor, 1))

\* the call of the history again, the vendor columns agreeing with the ledger
WithMatchingVendor(e) ==
    LET columns == ColumnsOf(e)
    IN  GenOrderColumns(ChecksOf(e), e.before, e.titles,
                        [k \in 1..Len(e.titles) |->
                            IF e.titles[k] = T_ZhengQuanShuLiang THEN e.order.owned
                            ELSE columns[k]])

\* the order of a call is on its way to the sheet or in it, or was among the
\* orders the consumer had received (the first counter of them) when the sink
\* refused an operation
Delivered(e) ==
    \/ ppc = "send" /\ pending = Item(e.order, e.file, e.lineno)
    \/ \E k \in 1..Len(queue) : queue[k] = Item(e.order, e.file, e.lineno)
    \/ \E k \in 2..Len(sheet) : sheet[k].item = Item(e.order, e.file, e.lineno)
    \/ /\ SinkFailed
       /\ \E k \in 1..counter :
              k <= Len(ValidItems) /\ ValidItems[k] = Item(e.order, e.file, e.lineno)

\* the vendor's remaining quantity of a call differs from the running total
Mismatch(i) ==
    /\ ~trace[i].panic
    /\ trace[i].left_count.some
    /\ trace[i].left_count.val # Total(After(i), trace[i].order.code)

\* the order and the ledger of a call are those of the same line without the
\* vendor columns, and of the same line with matching ones
SameWithoutVendor(e, after, without, matching) ==
    /\ without.order = e.order
    /\ without.ctx = after
    /\ matching.order = e.order
    /\ matching.ctx = after
    /\ matching.printed = <<>>

\* The comparison with the line without vendor columns is stated of the
\* latest call: the history is only appended to and the Context only changes
\* in a call, so every call was the latest one in an earlier state.
C7_MismatchAdvisory ==
    /\ \A i \in 1..Len(trace) :
           Mismatch(i) =>
               /\ trace[i].printed # <<>>
               /\ \E k \in 1..Len(stdout) : <<stdout[k]>> = trace[i].printed
               /\ trace[i].order.owned = I64ToString(Total(After(i), trace[i].order.code))
               /\ trace[i].order.owned # I64ToString(trace[i].left_count.val)
               /\ is_valid(trace[i].order) /\ ChannelOpen => Delivered(trace[i])
    /\ Len(trace) > 0 /\ Mismatch(Len(trace)) =>
           SameWithoutVendor(trace[Len(trace)], ctx, WithoutVendor(trace[Len(trace)]),
                             WithMatchingVendor(trace[Len(trace)]))

\* a sell whose vendor value differs has been written to the sheet
C7_Witness ==
    /\ Len(trace) >= 1
    /\ trace[1].line = LineSellA
    /\ trace[1].printed =
           <<[left_count |-> I64(150), count |-> I64(0 - 50), date |-> <<"2">>]>>
    /\ stdout = trace[1].printed
    /\ Len(sheet) = 2
    /\ sheet[2].cells[8] = <<"-", "5", "0">>

(***************************************************************************)
(* C8  Cross-code independence: a call for one code leaves the total of    *)
(* every other code as it was, and the running balances and the total of   *)
(* a code are those of replaying its own updates alone on an empty ledger. *)
(***************************************************************************)
\* the calls of the history that returned an order for this code
CallsFor(code) == SelectSeq(trace, LAMBDA e : ~e.panic /\ e.order.code = code)

\* the Context after replaying the first k of these calls on an empty ledger
RECURSIVE Replay(_, _)
Replay(calls, k) ==
    IF k = 0 THEN ContextNew
    ELSE add_count(FALSE, Replay(calls, k - 1), calls[k].order.code,
                   SignedCount(FALSE, calls[k].order.trade,
                               Abs(FALSE, calls[k].count).val).val).ctx

C8_CrossCodeIndependence ==
    /\ \A i \in 1..Len(trace) :
           \A d \in (DOMAIN After(i).count \cup DOMAIN trace[i].before.count) :
               trace[i].panic \/ d # trace[i].order.code =>
                   /\ d \in DOMAIN trace[i].before.count
                   /\ d \in DOMAIN After(i).count
                   /\ After(i).count[d] = trace[i].before.count[d]
    /\ \A code \in {trace[i].order.code : i \in 1..Len(trace)} :
           /\ \A k \in 1..Len(CallsFor(code)) :
                  CallsFor(code)[k].order.owned =
                      I64ToString(Total(Replay(CallsFor(code), k), code))
           /\ Total(ctx, code) = Total(Replay(CallsFor(code), Len(CallsFor(code))), code)

\* updates of A with an update of B between them
C8_Witness ==
    /\ Len(trace) = 3
    /\ \A i \in 1..3 : ~trace[i].panic
    /\ [i \in 1..3 |-> trace[i].order.code] = << <<"A">>, <<"B">>, <<"A">> >>
    /\ ctx.count[<<"B">>] = I64(7)
    /\ ctx.count[<<"A">>] = I64(50)

(***************************************************************************)
(* C9  The classifier is total: every order has one of the five actions;   *)
(* the business-type column decides it by the table, any other token       *)
(* gives Ignore and no label, and so does a title row without the column.  *)
(***************************************************************************)
\* the business-type token of the line of a call
TokenOf(e) == ColumnsOf(e)[Last(Positions(e.titles, {T_YeWuMingCheng, T_YeWuBiaoZhi}))]

C9_ClassifierTotal ==
    \A i \in 1..Len(trace) :
        ~trace[i].panic =>
            /\ trace[i].order.trade \in {"Buy", "Sell", "In", "Out", "Ignore"}
            /\ IF Positions(trace[i].titles, {T_YeWuMingCheng, T_YeWuBiaoZhi}) = {}
               THEN trace[i].order.trade = "Ignore" /\ trace[i].order.kind = <<>>
               ELSE <<trace[i].order.trade, trace[i].order.kind>> =
                    (IF TokenOf(trace[i]) = <<"zheng", "quan", "mai4", "chu">>
                         THEN <<"Sell", <<"mai4", "chu">> >>
                     ELSE IF TokenOf(trace[i]) \in
                                 {<<"zheng", "quan", "mai3", "ru">>,
                                  <<"kai", "fang", "ji", "jin", "ren", "gou", "jie", "guo">>}
                         THEN <<"Buy", <<"mai3", "ru">> >>
                     ELSE IF TokenOf(trace[i]) \in
                                 {<<"yin", "zheng", "zhuan", "cun">>,
                                  <<"yin", "hang", "zhuan", "cun">>,
                                  <<"li", "xi", "gui", "ben">>}
                         THEN <<"In", <<"yin", "zheng", "zhuan", "ru">> >>
                     ELSE IF TokenOf(trace[i]) \in
                                 {<<"yin", "zheng", "zhuan", "qu">>,
                                  <<"yin", "hang", "zhuan", "qu">>}
                         THEN <<"Out", <<"yin", "zheng", "zhuan", "chu">> >>
                     ELSE <<"Ignore", <<>> >>)

\* "利息归本" has been classified
C9_Witness ==
    /\ Len(trace) = 1
    /\ ~trace[1].panic
    /\ trace[1].titles = GenTitlesSyn
    /\ ColumnsOf(trace[1])[2] = B_LiXiGuiBen
    /\ trace[1].order.trade = "In"
    /\ trace[1].order.kind = K_YinZhengZhuanRu

(***************************************************************************)
(* C10  Backpressure: the channel never holds more than Capacity items; a  *)
(* send on a full channel cannot proceed and a receive on an empty one     *)
(* cannot either; no order is dropped or overwritten on the way: the       *)
(* orders written, in the channel and being sent are the valid orders of   *)
(* the lines read, in order.                                               *)
(***************************************************************************)
\* the orders received are the first of these items, those in the channel
\* and being sent are the rest, and a consumer at work has written a row for
\* every order received
Conserved(items) ==
    /\ counter <= Len(items)
    /\ ChannelOpen =>
           OrdersOf(queue) \o (IF ppc = "send" /\ pending.some THEN <<pending>> ELSE <<>>)
               = SubSeq(items, counter + 1, Len(items))
    /\ cpc \in {"recv", "done"} => SheetItems = SubSeq(items, 1, counter)

C10_Backpressure ==
    /\ Len(queue) <= Capacity
    /\ ppc = "send" /\ Len(queue) = Capacity => ~ENABLED (SendOrder \/ SendNone)
    /\ cpc = "recv" /\ queue = <<>> => ~ENABLED (RecvOrder \/ RecvNone)
    /\ Conserved(ValidItems)
    /\ read_stop_counter + Len(SelectSeq(queue, LAMBDA it : ~it.some))
           = (fi - 1) + (IF ppc = "done" THEN 1 ELSE 0)

\* the producer waits with an order in hand: the channel is full
C10_Witness ==
    /\ Len(queue) = Capacity
    /\ ppc = "send"
    /\ pending.some
    /\ ~ENABLED SendOrder

(***************************************************************************)
(* C6  Pipeline completion: in every fair run in which no file fails to    *)
(* open or to read, no path or line is malformed and the sink accepts      *)
(* every operation, the consumer eventually receives the last sentinel and *)
(* closes the workbook; and whenever the producer waits on the full        *)
(* channel, holding the ledger lock, the consumer can go on.               *)
(***************************************************************************)
\* the producer has panicked on an arithmetic overflow of its last call, the
\* one way it panics on a line that is well formed
OverflowPanic ==
    /\ ppc = "panicked"
    /\ trace # <<>>
    /\ trace[Len(trace)].panic
    /\ trace[Len(trace)].build = "debug"

C6_PipelineCompletion ==
    /\ [](~SinkFailed /\ ppc = "send" /\ locked /\ ~ENABLED (SendOrder \/ SendNone)
              => ENABLED (WriteTitle \/ RecvOrder \/ RecvNone))
    /\ ([](~SinkFailed /\ (ppc \in {"failed", "panicked"} => OverflowPanic))
            => <>(cpc = "done"))

(***************************************************************************)
(* C11  Producer concurrency.  As claimed: every input file has a producer *)
(* of its own, so once the producers are spawned the processing of a file  *)
(* that has not begun can begin as soon as the ledger lock is free,        *)
(* whatever the progress of the other files.                               *)
(***************************************************************************)
\* the processing of file f has begun: its lock has been taken
Started(f) == fi > f \/ (fi = f /\ ppc \notin {"unspawned", "lock"})

C11_ProducerConcurrency ==
    \A f \in 1..Len(paths) :
        ProcessAlive /\ ppc # "unspawned" /\ ~Started(f) /\ ~locked
            => ENABLED (Lock /\ fi = f)

(***************************************************************************)
(* C11 as amended: one producer task reads all the input files, one after  *)
(* the other in argument order, concurrently with the consumer only: the   *)
(* lines are processed in file order, a file begins only when the sentinel *)
(* of the file before it is sent, and the items reach the channel and the  *)
(* sheet in file order, never interleaved.                                 *)
(***************************************************************************)
\* the items sent or about to be sent, oldest first
InFlight ==
    (IF sheet = <<>> THEN <<>> ELSE SheetItems)
        \o queue \o (IF ppc = "send" THEN <<pending>> ELSE <<>>)

C11_SequentialFiles ==
    /\ \A i, j \in 1..Len(InFlight) : i < j => InFlight[i].file <= InFlight[j].file
    /\ \A i \in 1..Len(trace) :
           /\ trace[i].file <= fi
           /\ i > 1 => trace[i - 1].file <= trace[i].file
    /\ \A f \in 1..Len(paths) :
           Started(f) =>
               \A g \in 1..(f - 1) :
                   Len(SelectSeq(InFlight, LAMBDA it : ~it.some /\ it.file = g)) = 1
                       \/ read_stop_counter >= g

\* the consumer has written a row of each of two files, in file order, while
\* the producer is still reading the second
C11_Witness ==
    /\ Len(sheet) = 3
    /\ sheet[2].item.file = 1
    /\ sheet[3].item.file = 2
    /\ fi = 2
    /\ ppc = "read"

(***************************************************************************)
(* C12  Error containment: a fatal error on one input file (it cannot be   *)
(* opened or read, or its path or a line of it is rejected) ends the       *)
(* processing of that file only: the files after it are still processed,   *)
(* and the run never comes to a stop before the consumer has terminated.   *)
(***************************************************************************)
C12_ErrorContainment ==
    /\ ~SinkFailed /\ ppc \in {"failed", "panicked"} /\ fi < Len(paths)
           => ENABLED Producer
    /\ cpc = "done" \/ SinkFailed \/ ENABLED Next

(***************************************************************************)
(* C13  Quantity parse error: a line whose quantity text is decimal is     *)
(* accepted; a line whose quantity text is not numeric is not a crash: it  *)
(* gives no record and no ledger update, and the producer goes on with the *)
(* next line of the file.                                                  *)
(***************************************************************************)
\* the texts of a call in the columns of these titles, trimmed
TextsOf(e, names) == {Trim(ColumnsOf(e)[k]) : k \in Positions(e.titles, names)}

\* the call has as many columns as titles and a quantity that does not parse
BadQuantity(e) ==
    /\ Len(ColumnsOf(e)) = Len(e.titles)
    /\ \E s \in TextsOf(e, {T_ChengJiaoShuLiang, T_FaShengShuLiang}) : ~ParseF64(s).ok

\* the call has as many columns as titles and numbers where numbers are read
GoodNumbers(e) ==
    /\ Len(ColumnsOf(e)) = Len(e.titles)
    /\ \A s \in TextsOf(e, {T_ChengJiaoShuLiang, T_FaShengShuLiang, T_ZhengQuanShuLiang}) :
           ParseF64(s).ok

C13_QuantityParseError ==
    \A i \in 1..Len(trace) :
        /\ GoodNumbers(trace[i]) => ~trace[i].panic
        /\ BadQuantity(trace[i]) =>
               /\ After(i) = trace[i].before
               /\ ~Delivered(trace[i])
               /\ i = Len(trace) => ppc = "read"

(***************************************************************************)
(* C14  One sentinel per file, sent last: a file read to its end has       *)
(* exactly one sentinel sent for it, whether it gave records or none, a    *)
(* file still being read has none, and no record of a file follows the     *)
(* sentinel of that file.                                                  *)
(***************************************************************************)
\* the producer is through with file f
Finished(f) == fi > f \/ (fi = f /\ ppc = "done")

\* the sentinels of file f sent so far: those in the channel, and the one the
\* consumer has counted (it receives them in the order sent)
SentinelsSent(f) ==
    Len(SelectSeq(queue, LAMBDA it : ~it.some /\ it.file = f))
        + (IF read_stop_counter >= f THEN 1 ELSE 0)

C14_OneSentinelLast ==
    /\ \A f \in 1..Len(paths) :
           /\ Finished(f) => SentinelsSent(f) = 1
           /\ ~Finished(f) => SentinelsSent(f) = 0
           /\ ppc = "send" /\ ~pending.some /\ fi = f => pending = Sentinel(f)
    /\ read_stop_counter <= Len(paths)
    /\ \A i, j \in 1..Len(InFlight) :
           i < j /\ ~InFlight[i].some /\ InFlight[j].some
               => InFlight[i].file < InFlight[j].file
    /\ \A i \in 1..Len(InFlight) :
           InFlight[i].some /\ read_stop_counter > 0
               /\ i > Len(sheet) - 1 => InFlight[i].file > read_stop_counter

\* an empty first file and a second file with a record, both read to the end:
\* the consumer has counted a sentinel for each and written the one row
C14_Witness ==
    /\ cpc = "done"
    /\ Len(paths) = 2
    /\ read_stop_counter = 2
    /\ \A i \in 1..Len(trace) : trace[i].file = 2
    /\ Len(sheet) = 2
    /\ sheet[2].item.file = 2

(***************************************************************************)
(* C15  Ledger mutual exclusion: the lock is held by the producer, and     *)
(* only while it is inside a file; every step that calls gen_order or      *)
(* changes the ledger is taken with the lock held, and it is one whole     *)
(* update: the accumulator of the line's code is added to, read back and   *)
(* attached to the order in that step, every other code left alone.        *)
(***************************************************************************)
\* the call the step has just added to the history
NewCall == trace'[Len(trace')]

C15_LedgerMutualExclusion ==
    /\ [](locked => ppc \in {"extract", "title", "read", "send"})
    /\ [][(ctx' # ctx \/ trace' # trace) =>
              /\ locked
              /\ ppc = "read"
              /\ Len(trace') = Len(trace) + 1
              /\ NewCall.before = ctx
              /\ IF NewCall.panic THEN ctx' = ctx
                 ELSE /\ ctx' = add_count(FALSE, ctx, NewCall.order.code,
                                          TextValue(NewCall.order.count)).ctx
                      /\ NewCall.order.owned =
                             I64ToString(get_count(ctx', NewCall.order.code).val)]_vars

\* the lock is held for the second file, and the ledger carries the updates
\* made under it for both files
C15_Witness ==
    /\ locked
    /\ fi = 2
    /\ Len(trace) = 2
    /\ trace[1].file = 1
    /\ trace[2].file = 2
    /\ ~trace[1].panic
    /\ ~trace[2].panic
    /\ trace[1].order.code = trace[2].order.code
    /\ get_count(ctx, trace[2].order.code) = Some(I64(200))

(***************************************************************************)
(* C16  The ledger is updated once for every line gen_order processes,     *)
(* Ignore lines included: the magnitude of the line's quantity text (0     *)
(* without a quantity column) goes to the accumulator of its code, signed  *)
(* by the action; an Ignore line is dropped from the output, yet the next  *)
(* record of its code carries its quantity in the running balance; no code *)
(* ever leaves the ledger.                                                 *)
(***************************************************************************)
\* the quantity of a call as the line's text gives it, signed by the action
SignedMagnitude(e) ==
    IF e.order.trade = "Sell" THEN Neg(FALSE, Magnitude(e)).val ELSE Magnitude(e)

\* the i64 addition of a build without overflow checks
WrappingAdd(x, y) == Wrap(IntAdd(x, y))

C16_LedgerAlwaysUpdated ==
    \A i \in 1..Len(trace) :
        ~trace[i].panic =>
            /\ trace[i].order.code \in DOMAIN After(i).count
            /\ DOMAIN After(i).count =
                   DOMAIN trace[i].before.count \cup {trace[i].order.code}
            /\ Total(After(i), trace[i].order.code) =
                   WrappingAdd(Total(trace[i].before, trace[i].order.code),
                               SignedMagnitude(trace[i]))
            /\ trace[i].order.trade = "Ignore" => ~Delivered(trace[i])
            /\ i < Len(trace) /\ ~trace[i + 1].panic
                   /\ trace[i + 1].order.code = trace[i].order.code =>
                   TextValue(trace[i + 1].order.owned) =
                       WrappingAdd(WrappingAdd(Total(trace[i].before, trace[i].order.code),
                                               SignedMagnitude(trace[i])),
                                   SignedMagnitude(trace[i + 1]))

\* an Ignore line of 5 for code A, then a buy of 100 for A: the one row of
\* the sheet has running balance 105
C16_Witness ==
    /\ Len(trace) = 2
    /\ trace[1].line = LineCodeOtherA
    /\ ~trace[1].panic
    /\ trace[1].order.trade = "Ignore"
    /\ trace[2].line = LineCodeBuyA
    /\ Len(sheet) = 2
    /\ sheet[2].cells[8] = <<"1", "0", "5">>
    /\ DOMAIN ctx.count = {<<"A">>}

(***************************************************************************)
(* C17  Field-count mismatch: a line that does not split into as many      *)
(* fields as the title row has columns, a blank line among them, is a      *)
(* fatal fault before any effect: no order is made or sent for it, the     *)
(* ledger and the output are as before, and the producer has ended.        *)
(***************************************************************************)
\* the line of a call does not split into as many fields as there are titles
FieldCountMismatch(e) == Len(ColumnsOf(e)) # Len(e.titles)

C17_FieldCountMismatch ==
    \A i \in 1..Len(trace) :
        /\ FieldCountMismatch(trace[i]) =>
               /\ trace[i].panic
               /\ i = Len(trace)
               /\ ppc = "panicked"
               /\ ctx = trace[i].before
               /\ trace[i].printed = <<>>
               /\ \A k \in 1..Len(InFlight) :
                      InFlight[k].some =>
                          <<InFlight[k].file, InFlight[k].line>>
                              # <<trace[i].file, trace[i].lineno>>
        /\ GoodNumbers(trace[i]) /\ trace[i].build = "any" => ~trace[i].panic

\* a blank line after a buy of 100 of A, under a title row of four columns:
\* the producer has ended and the ledger is as the buy left it
C17_Witness ==
    /\ Len(trace) = 2
    /\ trace[1].line = LineCodeBuyA
    /\ ~trace[1].panic
    /\ trace[2].line = LineBlank
    /\ trace[2].titles = TitlesCode
    /\ trace[2].panic
    /\ ppc = "panicked"
    /\ ctx = add_count(FALSE, ContextNew, <<"A">>, I64(100)).ctx

(***************************************************************************)
(* C18  Lines without a security code, the column missing or its value     *)
(* empty, are not skipped by the ledger: they all add to the one entry     *)
(* keyed by the empty string, and the running balance of each such order   *)
(* is the total of that entry: the sum of the signed quantities of all the *)
(* lines without a code so far.                                            *)
(***************************************************************************)
\* the call has no security code: no code column, or an empty value in it
NoCode(e) ==
    /\ ~FieldCountMismatch(e)
    /\ TextsOf(e, {T_ZhengQuanDaiMa}) \subseteq {<<>>}

\* the sum of the signed quantities of the calls 1..i without a code
RECURSIVE SumNoCode(_)
SumNoCode(i) ==
    IF i = 0 THEN I64(0)
    ELSE WrappingAdd(SumNoCode(i - 1),
                     IF ~trace[i].panic /\ NoCode(trace[i]) THEN SignedMagnitude(trace[i])
                     ELSE I64(0))

C18_EmptyCodeShared ==
    \A i \in 1..Len(trace) :
        ~trace[i].panic /\ NoCode(trace[i]) =>
            /\ trace[i].order.code = <<>>
            /\ has(After(i), <<>>)
            /\ get_count(After(i), <<>>).val = SumNoCode(i)
            /\ trace[i].order.owned = I64ToString(SumNoCode(i))
            /\ is_valid(trace[i].order) /\ ChannelOpen => Delivered(trace[i])

\* three cash lines under a title row without a code column: an unrecognized
\* movement of 9, 7 in and 3 out share the entry of the empty code, and the
\* two rows of the sheet carry 16 and 19
C18_Witness ==
    /\ Len(trace) = 3
    /\ trace[1].titles = TitlesCash
    /\ trace[1].line = LineCashOther
    /\ trace[2].line = LineCashIn
    /\ trace[3].line = LineCashOut
    /\ ctx.count = (<<>> :> I64(19))
    /\ Len(sheet) = 3
    /\ sheet[2].cells[8] = <<"1", "6">>
    /\ sheet[3].cells[8] = <<"1", "9">>

(***************************************************************************)
(* C19  Column-order independence: when every family of titles (date,      *)
(* code, name, quantity, price, amount, business type, vendor remaining    *)
(* quantity) names at most one column, the same permutation of the title   *)
(* row and of the fields of the line gives the same result of gen_order:   *)
(* the same outcome, the same order and the same ledger.                   *)
(***************************************************************************)
\* the families of titles gen_order knows (htsc.rs:70-117)
TitleFamilies ==
    {{T_FaShengRiQi, T_RiQi}, {T_ZhengQuanDaiMa}, {T_ZhengQuanMingCheng, T_GuPiaoMingCheng},
     {T_ChengJiaoShuLiang, T_FaShengShuLiang}, {T_ChengJiaoJiaGe, T_ChengJiaoJunJia},
     {T_FaShengJinE, T_ShouFuJinE}, {T_YeWuMingCheng, T_YeWuBiaoZhi}, {T_ZhengQuanShuLiang}}

\* every family names at most one column of the title row
OncePerFamily(titles) ==
    \A F \in TitleFamilies : Cardinality(Positions(titles, F)) <= 1

\* the fields of a line as written: what is between the tabs, up to the "\n"
FieldsOf(line) == Split(SubSeq(line, 1, Len(line) - 1), "\t")

\* the permutations of 1..n, as sequences
RECURSIVE Perms(_)
Perms(n) ==
    IF n = 0 THEN {<<>>}
    ELSE {[k \in 1..n |-> IF k < j THEN p[k] ELSE IF k = j THEN n ELSE p[k - 1]] :
              p \in Perms(n - 1), j \in 1..n}

\* a sequence with its elements in the order p
Permute(q, p) == [k \in 1..Len(q) |-> q[p[k]]]

\* the call of the history again, title row and fields in the order p
Permuted(e, p) ==
    gen_order(ChecksOf(e), e.before, Permute(e.titles, p),
              Row(Permute(FieldsOf(e.line), p)))

C19_ColumnOrderIndependence ==
    \A i \in 1..Len(trace) :
        OncePerFamily(trace[i].titles)
            /\ Len(FieldsOf(trace[i].line)) = Len(trace[i].titles) =>
            \A p \in Perms(Len(trace[i].titles)) :
                /\ Permuted(trace[i], p).panic = trace[i].panic
                /\ Permuted(trace[i], p).order = trace[i].order
                /\ Permuted(trace[i], p).ctx = After(i)

====
